---- MODULE Spec2Model ----
(***************************************************************************)
(* Prelude: a self-service gateway onto pooled OpenShift clusters.         *)
(*                                                                         *)
(* The module models the shared data plane (ClusterClaims on the hub, the  *)
(* kubeconfig secrets on the hub, the bootstrap objects on each spoke) and *)
(* the components that act on it: the assignment service's POST /api/claim *)
(* handler (several requests in parallel), the cluster-authenticator loop  *)
(* and the orchestrator that binds claims to clusters.                     *)
(*                                                                         *)
(* Strings the program inspects character by character are sequences of    *)
(* one-character strings; instants and durations are whole milliseconds.   *)
(***************************************************************************)
EXTENDS Integers, Sequences, FiniteSets, TLC

(***************************************************************************)
(* Bounds of the model.                                                    *)
(***************************************************************************)
MaxClaims == 2
MaxRequests == 2
MaxServed == 2
MaxPoolServed == 3
MaxTicks == 1
MaxElapsed == 6
MaxProvisioned == 3
MaxReady == 2
MaxNames == 3
MaxText == 3
MaxTerms == 2
MaxAged == 2
MaxAgeDays == 3

(***************************************************************************)
(* Characters.                                                             *)
(***************************************************************************)
Digits == <<"0", "1", "2", "3", "4", "5", "6", "7", "8", "9">>

DigitChars == {Digits[i] : i \in 1..10}

LowerChars ==
    {"a", "b", "c", "d", "e", "f", "g", "h", "i", "j", "k", "l", "m",
     "n", "o", "p", "q", "r", "s", "t", "u", "v", "w", "x", "y", "z"}

UpperChars ==
    {"A", "B", "C", "D", "E", "F", "G", "H", "I", "J", "K", "L", "M",
     "N", "O", "P", "Q", "R", "S", "T", "U", "V", "W", "X", "Y", "Z"}

HexChars == DigitChars \cup {"a", "b", "c", "d", "e", "f"} \cup {"A", "B", "C", "D", "E", "F"}

SpaceChars == {" ", "\t", "\n", "\r"}

DigitValue(ch) == (CHOOSE i \in 1..10 : Digits[i] = ch) - 1

(***************************************************************************)
(* Time units, in milliseconds.                                            *)
(***************************************************************************)
Second == 1000
Minute == 60 * Second
Hour == 60 * Minute

(***************************************************************************)
(* strings.TrimSpace and strings.Trim.                                     *)
(***************************************************************************)
RECURSIVE TrimLeft(_, _)
TrimLeft(s, cutset) ==
    IF s # <<>> /\ Head(s) \in cutset THEN TrimLeft(Tail(s), cutset) ELSE s

RECURSIVE TrimRight(_, _)
TrimRight(s, cutset) ==
    IF s # <<>> /\ s[Len(s)] \in cutset
    THEN TrimRight(SubSeq(s, 1, Len(s) - 1), cutset)
    ELSE s

Trim(s, cutset) == TrimRight(TrimLeft(s, cutset), cutset)

TrimSpace(s) == Trim(s, SpaceChars)

(***************************************************************************)
(* sanitizePhone: keep alphanumerics and - _ . , map space + ( ) to -,     *)
(* drop the rest, then trim - _ . from both ends.                          *)
(***************************************************************************)
sanitizePhoneRunes(phone) ==
    LET Written(r) ==
            \/ r \in LowerChars \cup UpperChars \cup DigitChars
            \/ r \in {"-", "_", "."}
            \/ r \in {" ", "+", "(", ")"}
        runes == SelectSeq(phone, Written)
    IN  [i \in 1..Len(runes) |->
            IF runes[i] \in {" ", "+", "(", ")"} THEN "-" ELSE runes[i]]

\* An implementation that strips one character at most from each end.
sanitizePhoneStrippedOnce(phone) ==
    LET kept == sanitizePhoneRunes(phone)
        front == IF kept # <<>> /\ Head(kept) \in {"-", "_", "."} THEN Tail(kept) ELSE kept
    IN  IF front # <<>> /\ front[Len(front)] \in {"-", "_", "."}
        THEN SubSeq(front, 1, Len(front) - 1)
        ELSE front

sanitizePhone(phone) == Trim(sanitizePhoneRunes(phone), {"-", "_", "."})

(***************************************************************************)
(* sanitizeFingerprint: keep hex characters, stop once 16 are collected.   *)
(***************************************************************************)
RECURSIVE sanitizeFingerprintFrom(_, _)
sanitizeFingerprintFrom(fp, b) ==
    IF fp = <<>> THEN b
    ELSE LET r == Head(fp)
             b2 == IF r \in HexChars THEN Append(b, r) ELSE b
         IN  IF Len(b2) >= 16 THEN b2 ELSE sanitizeFingerprintFrom(Tail(fp), b2)

sanitizeFingerprint(fp) == sanitizeFingerprintFrom(fp, <<>>)

(***************************************************************************)
(* strconv.Atoi on a run of digits, and the decimal rendering of %d.       *)
(***************************************************************************)
RECURSIVE Atoi(_)
Atoi(ds) ==
    IF ds = <<>> THEN 0
    ELSE 10 * Atoi(SubSeq(ds, 1, Len(ds) - 1)) + DigitValue(ds[Len(ds)])

RECURSIVE Itoa(_)
Itoa(n) ==
    IF n < 10 THEN <<Digits[n + 1]>>
    ELSE Itoa(n \div 10) \o <<Digits[(n % 10) + 1]>>

\* Whether strconv.Atoi returns a range error for a run of digits: the
\* number exceeds the largest int, 9223372036854775807.
MaxInt == <<"9", "2", "2", "3", "3", "7", "2", "0", "3", "6", "8", "5", "4", "7", "7", "5",
            "8", "0", "7">>

RECURSIVE DigitsAbove(_, _)
DigitsAbove(a, b) ==
    IF a = <<>> THEN FALSE
    ELSE IF DigitValue(Head(a)) # DigitValue(Head(b))
    THEN DigitValue(Head(a)) > DigitValue(Head(b))
    ELSE DigitsAbove(Tail(a), Tail(b))

AtoiRangeError(ds) ==
    LET significant == TrimLeft(ds, {"0"})
    IN  \/ Len(significant) > Len(MaxInt)
        \/ Len(significant) = Len(MaxInt) /\ DigitsAbove(significant, MaxInt)

(***************************************************************************)
(* parseDuration: a sum of <digits><unit> terms, unit one of d, h, m.      *)
(* The result is [ok |-> BOOLEAN, d |-> milliseconds].                     *)
(***************************************************************************)
RECURSIVE parseDurationFrom(_, _, _)
parseDurationFrom(s, total, current) ==
    IF s = <<>>
    THEN IF current # <<>> THEN [ok |-> FALSE, d |-> 0] ELSE [ok |-> TRUE, d |-> total]
    ELSE LET c == Head(s)
         IN  IF c \in DigitChars
             THEN parseDurationFrom(Tail(s), total, Append(current, c))
             ELSE IF current = <<>> THEN [ok |-> FALSE, d |-> 0]
             ELSE IF AtoiRangeError(current) THEN [ok |-> FALSE, d |-> 0]
             ELSE IF c = "d" THEN parseDurationFrom(Tail(s), total + Atoi(current) * 24 * Hour, <<>>)
             ELSE IF c = "h" THEN parseDurationFrom(Tail(s), total + Atoi(current) * Hour, <<>>)
             ELSE IF c = "m" THEN parseDurationFrom(Tail(s), total + Atoi(current) * Minute, <<>>)
             ELSE [ok |-> FALSE, d |-> 0]

parseDuration(s) == parseDurationFrom(s, 0, <<>>)

(***************************************************************************)
(* formatDuration: whole hours then whole minutes; "0m" for a non-positive *)
(* duration and "1m" for a positive one below a minute.                    *)
(***************************************************************************)
formatDuration(d) ==
    IF d <= 0 THEN <<"0", "m">>
    ELSE LET hours == d \div Hour
             rest == IF hours > 0 THEN d - hours * Hour ELSE d
             minutes == rest \div Minute
             hpart == IF hours > 0 THEN Itoa(hours) \o <<"h">> ELSE <<>>
             mpart == IF minutes > 0 THEN Itoa(minutes) \o <<"m">> ELSE <<>>
         IN  IF hpart \o mpart = <<>> THEN <<"1", "m">> ELSE hpart \o mpart

(***************************************************************************)
(* time.Time.Format(time.RFC3339): the instant at one-second resolution,   *)
(* represented by its whole number of seconds.                             *)
(***************************************************************************)
FormatRFC3339(t) == t \div Second


(***************************************************************************)
(* Configuration of the assignment service and the request inputs.         *)
(***************************************************************************)
clusterLifetime == <<"2", "h">>

PhoneInputs == {<<"+", "1">>, <<"2">>, <<" ", "(", ")">>}

FingerprintInputs == {<<"a">>, <<"x", "y">>}

PasswordInputs == {<<"p", "w">>}

TickSteps == {30500}

Claims == 1..MaxClaims

Requests == 1..MaxRequests

NoClaim == 0

NoCluster == 0

ZeroTime == 0 - 1

\* The content of htpass-secret on a cluster where the secret does not exist.
NotFound == <<"NotFound">>

VARIABLES
    claims,      \* hub: ClusterClaims of the pool, by index i of the name <prefix>i
    adminSecret, \* hub: content of each cluster's admin kubeconfig secret
    userSecret,  \* hub: content of each cluster's user kubeconfig secret
    configmap,   \* spoke: whether the prelude configmap exists
    htpasswd,    \* spoke: content of htpass-secret
    req,         \* assignment service: one record per in-flight or answered request
    pending,     \* number of POST /api/claim requests still to arrive
    auth,        \* cluster-authenticator: position and locals of its loop
    scaler,      \* cluster-claimer: position and locals of its reconcile loop
    hub,         \* hub as the cluster-claimer reads it: claim names, deployments
    now,         \* wall clock
    ctx,         \* whether the context of the background loops is cancelled
    admin,       \* assignment service: admin password, session tokens, last admin call
    probe,       \* assignment service: last GET /api/cluster/ready and its response
    calc,        \* assignment service: last call of a string or duration function
    inject       \* assignment service: last call of updateHtpasswd and what it did

vars == <<claims, adminSecret, userSecret, configmap, htpasswd, req, pending, auth,
          scaler, hub, now, ctx, admin, probe, calc, inject>>

(***************************************************************************)
(* A ClusterClaim as createClusterClaim leaves it: pool set, unbound, no   *)
(* labels, no lifetime.  phone/fp = <<>> and auth = FALSE stand for an     *)
(* absent label; lifetime = <<>> for an absent spec.lifetime.              *)
(***************************************************************************)
NewClaim ==
    [ns |-> NoCluster, auth |-> FALSE, phone |-> <<>>, fp |-> <<>>,
     lifetime |-> <<>>, created |-> 0]

\* A request holds at most one copy of a claim (obj), read by List or Get;
\* stale tells that the store has since accepted a write of that claim, so
\* that the copy's resourceVersion is no longer the stored one.
IdleRequest ==
    [pc |-> "idle", phone |-> <<>>, password |-> <<>>, fingerprint |-> <<>>,
     claimName |-> NoClaim, clusterName |-> NoCluster, expiresAt |-> ZeroTime,
     found |-> "no", obj |-> NewClaim, stale |-> FALSE, status |-> 0]

IdleAuthenticator ==
    [pc |-> "list", todo |-> <<>>, cur |-> NoClaim, clusterName |-> NoCluster,
     sealed |-> {}, obj |-> NewClaim, stale |-> FALSE,
     stableSince |-> ZeroTime, deadline |-> ZeroTime, reading |-> "none"]

(***************************************************************************)
(* cluster-claimer: the locals of reconcile as main passes and reconcile   *)
(* initialises them.  main raises the maximum to the base limit when it is *)
(* below it.  availableSince and lastScaleUp start as the zero time;       *)
(* err, available and ready hold what the last count returned.             *)
(***************************************************************************)
claimLimit == 4
claimMax == 10
claimIncrement == 1
availableThreshold == 1

\* A start that leaves the maximum below the base limit as given.
StartScalerUnclamped(baseLimit, maxLimit, increment, threshold) ==
    [pc |-> "reconcile",
     baseLimit |-> baseLimit,
     maxLimit |-> maxLimit,
     increment |-> increment,
     availableThreshold |-> threshold,
     effectiveLimit |-> baseLimit,
     availableSince |-> ZeroTime,
     lastScaleUp |-> ZeroTime,
     err |-> FALSE, available |-> 0, ready |-> 0]

StartScaler(baseLimit, maxLimit, increment, threshold) ==
    [pc |-> "reconcile",
     baseLimit |-> baseLimit,
     maxLimit |-> IF maxLimit < baseLimit THEN baseLimit ELSE maxLimit,
     increment |-> increment,
     availableThreshold |-> threshold,
     effectiveLimit |-> baseLimit,
     availableSince |-> ZeroTime,
     lastScaleUp |-> ZeroTime,
     err |-> FALSE, available |-> 0, ready |-> 0]

\* The hub as the cluster-claimer reads it: the numbers i of the claims
\* prelude<i> of the pool (names), those of the claims of that name that
\* reference another pool (foreign), and the number of provisioned
\* ClusterDeployments of the pool.
PoolOf(names, provisioned) ==
    [names |-> names, foreign |-> {}, provisioned |-> provisioned]

(***************************************************************************)
(* Assignment service: the admin password and the session tokens.          *)
(* adminPassword is read from the environment at start; adminTokens.m      *)
(* starts empty.  call is the last request to /api/admin/login or          *)
(* /api/admin and its response.                                            *)
(***************************************************************************)
HasPrefix(s, prefix) == Len(s) >= Len(prefix) /\ SubSeq(s, 1, Len(prefix)) = prefix

TrimPrefix(s, prefix) ==
    IF HasPrefix(s, prefix) THEN SubSeq(s, Len(prefix) + 1, Len(s)) ELSE s

\* hex.EncodeToString of a sequence of bytes.
LowerHex == <<"0", "1", "2", "3", "4", "5", "6", "7", "8", "9", "a", "b", "c", "d", "e", "f">>

RECURSIVE EncodeToString(_)
EncodeToString(b) ==
    IF b = <<>> THEN <<>>
    ELSE <<LowerHex[(Head(b) \div 16) + 1], LowerHex[(Head(b) % 16) + 1]>>
             \o EncodeToString(Tail(b))

\* generateToken for the bytes that rand.Read delivered.
generateToken(b) == EncodeToString(b)

NoCall ==
    [handler |-> "none", method |-> "", password |-> <<>>, authorization |-> <<>>,
     status |-> 0, token |-> <<>>]

StartAdmin(password) == [adminPassword |-> password, adminTokens |-> {}, call |-> NoCall]

\* No GET /api/cluster/ready answered yet.  json tells whether the body of
\* the response is the JSON object {ready: ...}.
NoProbe == [method |-> "", phone |-> <<>>, status |-> 0, json |-> FALSE, ready |-> FALSE]

\* No string or duration function called yet.  arg is the argument of the
\* call, out the string it returned, parsed what parseDuration returned.
NoCalc == [f |-> "none", arg |-> <<>>, out |-> <<>>, parsed |-> [ok |-> FALSE, d |-> 0]]

\* No updateHtpasswd called yet.  cluster and password are the arguments of
\* the call, before the content of htpass-secret it found, op what it did
\* downstream ("create", "update", "skip", or "none" when it failed before),
\* err whether it returned an error, and prior the op of the call before it
\* when that one had the same arguments and returned nil ("none" otherwise).
NoInject ==
    [cluster |-> NoCluster, password |-> <<>>, before |-> NotFound, op |-> "none",
     err |-> FALSE, prior |-> "none"]

Init ==
    /\ claims = [c \in Claims |-> NewClaim]
    /\ adminSecret = [k \in Claims |-> "install"]
    /\ userSecret = [k \in Claims |-> "absent"]
    /\ configmap = [k \in Claims |-> FALSE]
    /\ htpasswd = [k \in Claims |-> NotFound]
    /\ req = [r \in Requests |-> IdleRequest]
    /\ pending = MaxServed
    /\ auth = IdleAuthenticator
    /\ scaler = StartScaler(claimLimit, claimMax, claimIncrement, availableThreshold)
    /\ hub = PoolOf(Claims, MaxClaims)
    /\ now = 0
    /\ ctx = FALSE
    /\ admin = StartAdmin(<<>>)
    /\ probe = NoProbe
    /\ calc = NoCalc
    /\ inject = NoInject

(***************************************************************************)
(* The resource store's optimistic concurrency.  Update is accepted only   *)
(* when the object carries the stored resourceVersion, that is when no     *)
(* write of the claim was accepted since the copy was read.  An accepted   *)
(* write that changes the object gives it a new resourceVersion, which     *)
(* makes every copy held elsewhere stale; one that changes nothing leaves  *)
(* the version as it is.                                                   *)
(***************************************************************************)
\* A store that accepts every Update, whatever resourceVersion it carries.
UpdateUnconditional(holder) == TRUE

UpdateAccepted(holder) == ~holder.stale

HoldsCopy(rec, c) == rec.pc \in {"backfill", "label", "unlabelUpdate"} /\ rec.claimName = c

ReqAfterWrite(c, obj) ==
    [r \in Requests |->
        IF obj # claims[c] /\ HoldsCopy(req[r], c)
        THEN [req[r] EXCEPT !.stale = TRUE]
        ELSE req[r]]

AuthAfterWrite(c, obj) ==
    IF obj # claims[c] /\ auth.pc = "labelUpdate" /\ auth.cur = c
    THEN [auth EXCEPT !.stale = TRUE]
    ELSE auth

(***************************************************************************)
(* The orchestrator binds a claim to its cluster (spec.namespace).         *)
(***************************************************************************)
Bind(c) ==
    /\ claims[c].ns = NoCluster
    /\ LET obj == [claims[c] EXCEPT !.ns = c]
       IN  /\ claims' = [claims EXCEPT ![c] = obj]
           /\ req' = ReqAfterWrite(c, obj)
           /\ auth' = AuthAfterWrite(c, obj)
    /\ UNCHANGED <<adminSecret, userSecret, configmap, htpasswd, pending, now, scaler, hub, ctx, admin, probe, calc, inject>>

Tick ==
    /\ \E d \in TickSteps :
         /\ now + d <= MaxTicks * d
         /\ now' = now + d
    /\ UNCHANGED <<claims, adminSecret, userSecret, configmap, htpasswd, req, pending, auth, scaler, hub, ctx, admin, probe, calc, inject>>

(***************************************************************************)
(* POST /api/claim.                                                        *)
(*                                                                         *)
(* The handler is a sequence of steps, one per call to the hub or to the   *)
(* spoke; the computation between two calls is local to the request and    *)
(* belongs to the step of the call before it.                              *)
(***************************************************************************)
Respond(rec, code) ==
    [rec EXCEPT !.pc = "done", !.status = code, !.password = <<>>, !.fingerprint = <<>>,
                !.obj = NewClaim, !.stale = FALSE]

\* handleClaim up to the List call: decode, sanitise, reject empty fields.
Receive(r, phones) ==
    /\ pending > 0
    /\ pending' = pending - 1
    /\ \E phoneIn \in phones, passwordIn \in PasswordInputs, fpIn \in FingerprintInputs :
         LET phone == sanitizePhone(TrimSpace(phoneIn))
             password == TrimSpace(passwordIn)
             fingerprint == sanitizeFingerprint(fpIn)
             rec == [IdleRequest EXCEPT !.phone = phone, !.password = password,
                                        !.fingerprint = fingerprint]
         IN  req' = [req EXCEPT ![r] =
                        IF phone = <<>> \/ password = <<>>
                        THEN Respond(rec, 400)
                        ELSE [rec EXCEPT !.pc = "list"]]
    /\ UNCHANGED <<claims, adminSecret, userSecret, configmap, htpasswd, auth, now, scaler, hub, ctx, admin, probe, calc, inject>>

\* A request arrives on a connection that has none in flight.
ReceiveClaim(r) ==
    /\ req[r].pc \in {"idle", "done"}
    /\ Receive(r, PhoneInputs)

\* The check that follows selection: without a bound cluster the answer is
\* 404, else the handler goes on to the lookups.
AfterSelection(rec) ==
    IF rec.clusterName = NoCluster
    THEN Respond(rec, 404)
    ELSE [rec EXCEPT !.pc = "lookup", !.obj = NewClaim, !.stale = FALSE]

\* The first listed claim of the pool with auth=done that carries the phone.
AffinityClaim(items, phone) ==
    LET hits == {i \in DOMAIN items : items[i].auth /\ items[i].phone = phone}
    IN  IF hits = {} THEN NoClaim ELSE CHOOSE i \in hits : \A j \in hits : i <= j

\* A device check that tests the phone for equality instead of difference.
DeviceConflictSamePhone(items, phone, fingerprint) ==
    \E i \in DOMAIN items :
        /\ items[i].auth
        /\ items[i].fp = fingerprint
        /\ items[i].phone # <<>>
        /\ items[i].phone = phone

\* Some listed auth=done claim carries the fingerprint with another phone.
DeviceConflict(items, phone, fingerprint) ==
    \E i \in DOMAIN items :
        /\ items[i].auth
        /\ items[i].fp = fingerprint
        /\ items[i].phone # <<>>
        /\ items[i].phone # phone

\* A selection that leaves out the test for prelude-auth=done.
AvailableIndicesUnauthenticated(items) ==
    {i \in DOMAIN items : items[i].phone = <<>>}

\* A selection that leaves out the test for an absent phone label.
AvailableIndicesAnyPhone(items) == {i \in DOMAIN items : items[i].auth}

\* A selection that also takes claims that are not bound yet.
AvailableIndicesUnbound(items) ==
    {i \in DOMAIN items :
        (items[i].auth \/ items[i].ns = NoCluster) /\ items[i].phone = <<>>}

\* The listed auth=done claims without a phone.
AvailableIndices(items) ==
    {i \in DOMAIN items : items[i].auth /\ items[i].phone = <<>>}

\* creation + parsed spec.lifetime, or the zero instant when there is none.
ExpiryOf(claim) ==
    IF claim.lifetime # <<>> /\ parseDuration(claim.lifetime).ok
    THEN claim.created + parseDuration(claim.lifetime).d
    ELSE ZeroTime

\* List, then on the listed items: the affinity scan; failing that the
\* device conflict check, the collection of the available claims and the
\* random pick among them.
ListClaims(r) ==
    /\ req[r].pc = "list"
    /\ LET rec == req[r]
           a == AffinityClaim(claims, rec.phone)
       IN  \/ req' = [req EXCEPT ![r] = Respond(rec, 500)]
           \/ /\ a # NoClaim
              /\ LET hit == [rec EXCEPT !.obj = claims[a], !.claimName = a,
                                        !.clusterName = claims[a].ns,
                                        !.expiresAt = ExpiryOf(claims[a]),
                                        !.found = "affinity"]
                 IN  req' = [req EXCEPT ![r] =
                        IF rec.fingerprint # <<>> /\ claims[a].fp # rec.fingerprint
                        THEN [hit EXCEPT !.pc = "backfill"]
                        ELSE AfterSelection(hit)]
           \/ /\ a = NoClaim
              /\ rec.fingerprint # <<>> /\ DeviceConflict(claims, rec.phone, rec.fingerprint)
              /\ req' = [req EXCEPT ![r] = Respond(rec, 409)]
           \/ /\ a = NoClaim
              /\ ~(rec.fingerprint # <<>> /\ DeviceConflict(claims, rec.phone, rec.fingerprint))
              /\ AvailableIndices(claims) = {}
              /\ req' = [req EXCEPT ![r] = Respond(rec, 404)]
           \/ /\ a = NoClaim
              /\ ~(rec.fingerprint # <<>> /\ DeviceConflict(claims, rec.phone, rec.fingerprint))
              /\ \E c \in AvailableIndices(claims) :
                   req' = [req EXCEPT ![r] =
                       [rec EXCEPT !.obj = claims[c], !.claimName = c,
                                   !.clusterName = claims[c].ns, !.pc = "label"]]
    /\ UNCHANGED <<claims, adminSecret, userSecret, configmap, htpasswd, pending, auth, now, scaler, hub, ctx, admin, probe, calc, inject>>

\* The affinity branch's Update of the listed claim with prelude-fp set;
\* a rejected update is logged and the request goes on.
BackfillFingerprint(r) ==
    /\ req[r].pc = "backfill"
    /\ LET c == req[r].claimName
           obj == [req[r].obj EXCEPT !.fp = req[r].fingerprint]
       IN  IF UpdateAccepted(req[r])
           THEN /\ claims' = [claims EXCEPT ![c] = obj]
                /\ req' = [ReqAfterWrite(c, obj) EXCEPT ![r] = AfterSelection(req[r])]
                /\ auth' = AuthAfterWrite(c, obj)
           ELSE /\ req' = [req EXCEPT ![r] = AfterSelection(req[r])]
                /\ UNCHANGED <<claims, auth>>
    /\ UNCHANGED <<adminSecret, userSecret, configmap, htpasswd, pending, now, scaler, hub, ctx, admin, probe, calc, inject>>

\* The object fresh selection writes: phone, fp when non-empty, and
\* spec.lifetime = age + configured lifetime.
Labelled(claim, phone, fingerprint, totalLifetime) ==
    [claim EXCEPT !.phone = phone,
                  !.fp = IF fingerprint # <<>> THEN fingerprint ELSE @,
                  !.lifetime = formatDuration(totalLifetime)]

\* Fresh selection on the picked claim: labels, lifetime, the single
\* Update; a rejected update answers 500.
FreshSelection(r) ==
    /\ req[r].pc = "label"
    /\ LET rec == req[r]
           c == rec.claimName
           configured == parseDuration(clusterLifetime)
           age == now - rec.obj.created
           totalLifetime == age + configured.d
           obj == Labelled(rec.obj, rec.phone, rec.fingerprint, totalLifetime)
           timed == [rec EXCEPT !.expiresAt = rec.obj.created + totalLifetime]
       IN  IF ~configured.ok
           THEN /\ req' = [req EXCEPT ![r] = Respond(rec, 500)]
                /\ UNCHANGED <<claims, auth>>
           ELSE IF ~UpdateAccepted(rec)
           THEN /\ req' = [req EXCEPT ![r] = Respond(timed, 500)]
                /\ UNCHANGED <<claims, auth>>
           ELSE /\ claims' = [claims EXCEPT ![c] = obj]
                /\ req' = [ReqAfterWrite(c, obj) EXCEPT ![r] =
                              AfterSelection([timed EXCEPT !.found = "fresh"])]
                /\ auth' = AuthAfterWrite(c, obj)
    /\ UNCHANGED <<adminSecret, userSecret, configmap, htpasswd, pending, now, scaler, hub, ctx, admin, probe, calc, inject>>

\* updateHtpasswd on a reachable spoke: create the secret if missing, skip
\* when the stored hash validates the password, else update.  The stored
\* entry is represented by the password its hash validates.
HtpasswdAfter(existing, password) ==
    IF existing = NotFound THEN password
    ELSE IF existing = password THEN existing
    ELSE password

\* From the selection to the response: Get of the ClusterDeployment, of
\* the admin and of the user kubeconfig secret (a failure answers 500),
\* then updateHtpasswd: 200 on success, else on to unlabelClaim.
InjectCredentials(r) ==
    /\ req[r].pc = "lookup"
    /\ \/ /\ req' = [req EXCEPT ![r] = Respond(@, 500)]
          /\ UNCHANGED htpasswd
       \/ /\ userSecret[req[r].clusterName] = "absent"
          /\ req' = [req EXCEPT ![r] = Respond(@, 500)]
          /\ UNCHANGED htpasswd
       \/ /\ userSecret[req[r].clusterName] # "absent"
          /\ htpasswd' = [htpasswd EXCEPT ![req[r].clusterName] = HtpasswdAfter(@, req[r].password)]
          /\ req' = [req EXCEPT ![r] = Respond(@, 200)]
       \/ /\ userSecret[req[r].clusterName] # "absent"
          /\ req' = [req EXCEPT ![r].pc = "unlabelGet"]
          /\ UNCHANGED htpasswd
    /\ UNCHANGED <<claims, adminSecret, userSecret, configmap, pending, auth, now, scaler, hub, ctx, admin, probe, calc, inject>>

\* unlabelClaim, the Get: on error it returns and the handler answers 503.
UnlabelGet(r) ==
    /\ req[r].pc = "unlabelGet"
    /\ \/ req' = [req EXCEPT ![r] = Respond(@, 503)]
       \/ req' = [req EXCEPT ![r] = [req[r] EXCEPT !.obj = claims[req[r].claimName],
                                                    !.stale = FALSE,
                                                    !.pc = "unlabelUpdate"]]
    /\ UNCHANGED <<claims, adminSecret, userSecret, configmap, htpasswd, pending, auth, now, scaler, hub, ctx, admin, probe, calc, inject>>

\* A recovery that deletes prelude-auth and prelude-fp but leaves prelude.
UnlabelledKeepsPhone(claim) == [claim EXCEPT !.auth = FALSE, !.fp = <<>>]

\* A recovery that deletes prelude and prelude-fp but leaves prelude-auth.
UnlabelledKeepsAuth(claim) == [claim EXCEPT !.phone = <<>>, !.fp = <<>>]

\* A recovery that removes spec.lifetime together with the labels.
UnlabelledWithoutLifetime(claim) ==
    [claim EXCEPT !.phone = <<>>, !.auth = FALSE, !.fp = <<>>, !.lifetime = <<>>]

\* The fetched claim without the prelude, prelude-auth and prelude-fp labels.
Unlabelled(claim) == [claim EXCEPT !.phone = <<>>, !.auth = FALSE, !.fp = <<>>]

\* unlabelClaim, the Update, then the 503 response whatever its outcome.
UnlabelUpdate(r) ==
    /\ req[r].pc = "unlabelUpdate"
    /\ LET c == req[r].claimName
           obj == Unlabelled(req[r].obj)
       IN  IF UpdateAccepted(req[r])
           THEN /\ claims' = [claims EXCEPT ![c] = obj]
                /\ req' = [ReqAfterWrite(c, obj) EXCEPT ![r] = Respond(req[r], 503)]
                /\ auth' = AuthAfterWrite(c, obj)
           ELSE /\ req' = [req EXCEPT ![r] = Respond(req[r], 503)]
                /\ UNCHANGED <<claims, auth>>
    /\ UNCHANGED <<adminSecret, userSecret, configmap, htpasswd, pending, now, scaler, hub, ctx, admin, probe, calc, inject>>

(***************************************************************************)
(* The cluster-authenticator.                                              *)
(*                                                                         *)
(* reconcile loops over processUnauthenticatedClaims and a bounded watch.  *)
(* processUnauthenticatedClaims lists the claims and takes the bound ones  *)
(* without auth=done one after the other through authenticateCluster and   *)
(* labelClaimAuthenticated; a failing step skips to the next listed claim. *)
(***************************************************************************)
\* The listed claims that are bound and lack auth=done, in list order,
\* each with its name and its cluster (spec.namespace).
RECURSIVE UnauthenticatedFrom(_, _)
UnauthenticatedFrom(items, i) ==
    IF i > Len(items) THEN <<>>
    ELSE IF ~items[i].auth /\ items[i].ns # NoCluster
    THEN <<[claimName |-> i, clusterName |-> items[i].ns]>> \o UnauthenticatedFrom(items, i + 1)
    ELSE UnauthenticatedFrom(items, i + 1)

Unauthenticated(items) == UnauthenticatedFrom(items, 1)

\* A loop that ends the pass at the claim at hand instead of going on to
\* the next listed claim.
AuthReturn(a) == [IdleAuthenticator EXCEPT !.pc = "watch"]

\* Position of the loop once the claim at hand is finished or skipped:
\* the next claim of the listing, or the watch when there is none or the
\* context is cancelled.
AuthContinue(a) ==
    IF a.todo = <<>> \/ ctx
    THEN [IdleAuthenticator EXCEPT !.pc = "watch"]
    ELSE [IdleAuthenticator EXCEPT !.pc = "authenticate",
                                   !.cur = Head(a.todo).claimName,
                                   !.clusterName = Head(a.todo).clusterName,
                                   !.todo = Tail(a.todo)]

\* processUnauthenticatedClaims, the List.
AuthList ==
    /\ auth.pc = "list"
    /\ ~ctx
    /\ \/ auth' = [auth EXCEPT !.pc = "watch"]
       \/ auth' = AuthContinue([auth EXCEPT !.todo = Unauthenticated(claims)])
    /\ UNCHANGED <<claims, adminSecret, userSecret, configmap, htpasswd, req, pending, now, scaler, hub, ctx, admin, probe, calc, inject>>

\* authenticateCluster, steps 1 to 7 in order, stopping at the first step
\* that fails (stop) with the effects of the steps before it:
\*   1-3  ClusterDeployment and admin kubeconfig from the hub,
\*        waitForStableCluster, regenerateKubeconfig for system:admin
\*   4    Update of the admin kubeconfig secret on the hub
\*   5-6  regenerateKubeconfig for admin, createOrUpdateSecret of the user
\*        kubeconfig secret on the hub
\*   7    createSpokeResources: the prelude configmap, then htpass-secret
\*        with an empty entry, each created if missing
\* It returns nil only when no step failed.
AuthSteps == <<"prepare", "admin", "user", "configmap", "htpasswd">>

StepsBefore(stop) == {AuthSteps[i] : i \in 1..(stop - 1)}

authenticateCluster(stop) ==
    LET k == auth.clusterName
        did == StepsBefore(stop)
    IN  /\ adminSecret' = IF "admin" \in did THEN [adminSecret EXCEPT ![k] = "sealed"] ELSE adminSecret
        /\ userSecret' = IF "user" \in did THEN [userSecret EXCEPT ![k] = "sealed"] ELSE userSecret
        /\ configmap' = IF "configmap" \in did THEN [configmap EXCEPT ![k] = TRUE] ELSE configmap
        /\ htpasswd' = IF "htpasswd" \in did
                       THEN [htpasswd EXCEPT ![k] = IF @ = NotFound THEN <<>> ELSE @]
                       ELSE htpasswd

\* A caller that ignores the error of the last step, the htpasswd seeding.
AuthenticatedBeforeSeeding(stop) == stop >= Len(AuthSteps)

\* Whether authenticateCluster, stopped at stop, returned nil.
Authenticated(stop) == stop > Len(AuthSteps)

\* The loop body of processUnauthenticatedClaims up to the label write: an
\* error of authenticateCluster skips to the next claim.
AuthAuthenticate ==
    /\ auth.pc = "authenticate"
    /\ \E stop \in 1..(Len(AuthSteps) + 1) :
         /\ authenticateCluster(stop)
         /\ auth' = IF Authenticated(stop)
                    THEN [auth EXCEPT !.pc = "labelGet", !.sealed = StepsBefore(stop)]
                    ELSE AuthContinue(auth)
    /\ UNCHANGED <<claims, req, pending, now, scaler, hub, ctx, admin, probe, calc, inject>>

\* labelClaimAuthenticated, the Get.
AuthLabelGet ==
    /\ auth.pc = "labelGet"
    /\ \/ auth' = [auth EXCEPT !.pc = "labelUpdate", !.obj = claims[auth.cur], !.stale = FALSE]
       \/ auth' = AuthContinue(auth)
    /\ UNCHANGED <<claims, adminSecret, userSecret, configmap, htpasswd, req, pending, now, scaler, hub, ctx, admin, probe, calc, inject>>

\* labelClaimAuthenticated, the Update with prelude-auth=done added.
AuthLabelUpdate ==
    /\ auth.pc = "labelUpdate"
    /\ LET c == auth.cur
           obj == [auth.obj EXCEPT !.auth = TRUE]
       IN  IF UpdateAccepted(auth)
           THEN /\ claims' = [claims EXCEPT ![c] = obj]
                /\ req' = ReqAfterWrite(c, obj)
           ELSE UNCHANGED <<claims, req>>
    /\ auth' = AuthContinue(auth)
    /\ UNCHANGED <<adminSecret, userSecret, configmap, htpasswd, pending, now, scaler, hub, ctx, admin, probe, calc, inject>>

\* reconcile after processUnauthenticatedClaims: list, watch until a claim
\* event or the 30 s watch timeout, then the next pass.
AuthWatch ==
    /\ auth.pc = "watch"
    /\ auth' = [auth EXCEPT !.pc = "list"]
    /\ UNCHANGED <<claims, adminSecret, userSecret, configmap, htpasswd, req, pending, now, scaler, hub, ctx, admin, probe, calc, inject>>

Authenticator ==
    \/ AuthList
    \/ AuthAuthenticate
    \/ AuthLabelGet
    \/ AuthLabelUpdate
    \/ AuthWatch

handleClaim(r) ==
    \/ ReceiveClaim(r)
    \/ ListClaims(r)
    \/ BackfillFingerprint(r)
    \/ FreshSelection(r)
    \/ InjectCredentials(r)
    \/ UnlabelGet(r)
    \/ UnlabelUpdate(r)

Next ==
    \/ \E c \in Claims : Bind(c)
    \/ \E r \in Requests : handleClaim(r)
    \/ Authenticator
    \/ Tick

Spec == Init /\ [][Next]_vars

(***************************************************************************)
(* The assignment service alone on a pool the authenticator has made       *)
(* ready: every claim bound, sealed and labelled auth=done, none assigned. *)
(***************************************************************************)
InitPool ==
    /\ claims = [c \in Claims |-> [NewClaim EXCEPT !.ns = c, !.auth = TRUE]]
    /\ adminSecret = [k \in Claims |-> "sealed"]
    /\ userSecret = [k \in Claims |-> "sealed"]
    /\ configmap = [k \in Claims |-> TRUE]
    /\ htpasswd = [k \in Claims |-> <<>>]
    /\ req = [r \in Requests |-> IdleRequest]
    /\ pending = MaxPoolServed
    /\ auth = [IdleAuthenticator EXCEPT !.pc = "watch"]
    /\ scaler = StartScaler(claimLimit, claimMax, claimIncrement, availableThreshold)
    /\ hub = PoolOf(Claims, MaxClaims)
    /\ now = 0
    /\ ctx = FALSE
    /\ admin = StartAdmin(<<>>)
    /\ probe = NoProbe
    /\ calc = NoCalc
    /\ inject = NoInject

NextPool ==
    \/ \E r \in Requests : handleClaim(r)
    \/ Tick

SpecPool == InitPool /\ [][NextPool]_vars

(***************************************************************************)
(* Concurrent requests with pairwise distinct phones on a ready pool: one  *)
(* request per connection, request r carrying the phone "+<r>".            *)
(***************************************************************************)
DistinctPhone(r) == <<"+">> \o Itoa(r)

ReceiveDistinct(r) ==
    /\ req[r].pc = "idle"
    /\ Receive(r, {DistinctPhone(r)})

InitDistinct ==
    /\ claims = [c \in Claims |-> [NewClaim EXCEPT !.ns = c, !.auth = TRUE]]
    /\ adminSecret = [k \in Claims |-> "sealed"]
    /\ userSecret = [k \in Claims |-> "sealed"]
    /\ configmap = [k \in Claims |-> TRUE]
    /\ htpasswd = [k \in Claims |-> <<>>]
    /\ req = [r \in Requests |-> IdleRequest]
    /\ pending = MaxRequests
    /\ auth = [IdleAuthenticator EXCEPT !.pc = "watch"]
    /\ scaler = StartScaler(claimLimit, claimMax, claimIncrement, availableThreshold)
    /\ hub = PoolOf(Claims, MaxClaims)
    /\ now = 0
    /\ ctx = FALSE
    /\ admin = StartAdmin(<<>>)
    /\ probe = NoProbe
    /\ calc = NoCalc
    /\ inject = NoInject

NextDistinct ==
    \/ \E r \in Requests :
         \/ ReceiveDistinct(r)
         \/ ListClaims(r)
         \/ FreshSelection(r)
         \/ InjectCredentials(r)
         \/ UnlabelGet(r)
         \/ UnlabelUpdate(r)
    \/ Tick

SpecDistinct == InitDistinct /\ [][NextDistinct]_vars

(***************************************************************************)
(* The authenticator and the orchestrator alone, with the scheduling of    *)
(* the authenticator's goroutine.  The loop always takes its next step     *)
(* (every call it makes returns: the watch after 30 s at most, the         *)
(* stability gate after 30 min at most).  The List does not fail forever,  *)
(* and for the claims of Steady the cluster and the hub do not fail        *)
(* forever either: authenticateCluster and the Get of the label write      *)
(* succeed for them when attempted again and again.  Nothing is assumed    *)
(* for the other claims, whose steps may fail on every pass.               *)
(***************************************************************************)
Steady == Claims \ {1}

NextAuth ==
    \/ \E c \in Claims : Bind(c)
    \/ Authenticator

FairAuth ==
    /\ WF_vars(Authenticator)
    /\ SF_vars(AuthList /\ auth'.pc = "authenticate")
    /\ \A c \in Steady :
          /\ SF_vars(AuthAuthenticate /\ auth.cur = c /\ auth'.pc = "labelGet")
          /\ SF_vars(AuthLabelGet /\ auth.cur = c /\ auth'.pc = "labelUpdate")

SpecAuth == Init /\ [][NextAuth]_vars /\ FairAuth

(***************************************************************************)
(* cluster-claimer.                                                        *)
(*                                                                         *)
(* reconcile loops over: count the available and ready claims, adjust the  *)
(* effective limit, createNeededClaims, then watch the ClusterDeployments  *)
(* until an event or the watch timeout.                                    *)
(***************************************************************************)
\* A cooldown of 20 minutes.
ScaleUpCooldownShort == 20 * Minute

ScaleUpCooldown == 25 * Minute

ScaleDownHysteresis == 10 * Minute

\* What countAvailableAndReadyClaims can return: an error, or the number
\* of auth=done claims without a phone and the number of auth=done claims.
Counts ==
    {[err |-> TRUE, available |-> 0, ready |-> 0]}
        \cup {c \in [err : {FALSE}, available : 0..MaxReady, ready : 0..MaxReady] :
                 c.available <= c.ready}

\* A scale-up that does not stamp lastScaleUp.
ScaleUpUnstamped(s, t) ==
    [s EXCEPT !.effectiveLimit =
                  IF @ + s.increment > s.maxLimit THEN s.maxLimit ELSE @ + s.increment]

\* The scale-up: the limit raised by the increment, capped at the maximum,
\* and lastScaleUp stamped.
ScaleUp(s, t) ==
    [s EXCEPT !.effectiveLimit =
                  IF @ + s.increment > s.maxLimit THEN s.maxLimit ELSE @ + s.increment,
              !.lastScaleUp = t]

\* The scale-down: the limit back at the base limit, the timer cleared.
ScaleDown(s) == [s EXCEPT !.effectiveLimit = s.baseLimit, !.availableSince = ZeroTime]

\* The dynamic scaling of the effective limit at instant t, for the locals
\* s of the loop and the count just returned.
Scaled(s, count, t) ==
    LET c == [s EXCEPT !.err = count.err, !.available = count.available,
                       !.ready = count.ready]
    IN  IF count.err THEN c
        ELSE IF count.available <= s.availableThreshold /\ count.ready > 0
        THEN LET r == [c EXCEPT !.availableSince = ZeroTime]
             IN  IF r.effectiveLimit < r.maxLimit
                 THEN IF r.lastScaleUp # ZeroTime /\ t - r.lastScaleUp < ScaleUpCooldown
                      THEN r
                      ELSE ScaleUp(r, t)
                 ELSE r
        ELSE IF c.availableSince = ZeroTime
             THEN [c EXCEPT !.availableSince = t]
             ELSE IF c.effectiveLimit > c.baseLimit
                     /\ t - c.availableSince >= ScaleDownHysteresis
                  THEN ScaleDown(c)
                  ELSE c

\* A count of needed claims whose target is not capped by the limit.
claimsNeededUncapped(h, limit) ==
    LET needed == h.provisioned - Cardinality(h.names)
    IN  IF needed < 0 THEN 0 ELSE needed

\* A count of needed claims that does not subtract the claims of the pool.
claimsNeededUncounted(h, limit) ==
    IF h.provisioned > limit THEN limit ELSE h.provisioned

\* claimsNeeded: the provisioned deployments capped by the limit, less the
\* claims of the pool, never below zero.
claimsNeeded(h, limit) ==
    LET target == IF h.provisioned > limit THEN limit ELSE h.provisioned
        needed == target - Cardinality(h.names)
    IN  IF needed < 0 THEN 0 ELSE needed

\* The creation loop of createNeededClaims from name prelude<i> on, with
\* left claims still to create, existing the names listed for the pool and
\* accepted the number of creates the store accepts before one fails.  A
\* create of a name that another pool's claim holds fails.  The result is
\* the set of names created.
RECURSIVE createdFrom(_, _, _, _, _)
createdFrom(i, left, existing, foreign, accepted) ==
    IF left = 0 THEN {}
    ELSE IF i \in existing THEN createdFrom(i + 1, left, existing, foreign, accepted)
    ELSE IF i \in foreign \/ accepted = 0 THEN {}
    ELSE {i} \cup createdFrom(i + 1, left - 1, existing, foreign, accepted - 1)

\* The names the same loop passes to createClusterClaim, the create that
\* fails included.
RECURSIVE issuedFrom(_, _, _, _, _)
issuedFrom(i, left, existing, foreign, accepted) ==
    IF left = 0 THEN {}
    ELSE IF i \in existing THEN issuedFrom(i + 1, left, existing, foreign, accepted)
    ELSE IF i \in foreign \/ accepted = 0 THEN {i}
    ELSE {i} \cup issuedFrom(i + 1, left - 1, existing, foreign, accepted - 1)

\* createNeededClaims for the limit: nothing when a List fails (listed is
\* FALSE) or no claim is needed, else the creation loop.
createNeededClaims(h, limit, listed, accepted) ==
    IF ~listed \/ claimsNeeded(h, limit) = 0 THEN h
    ELSE [h EXCEPT !.names =
             @ \cup createdFrom(1, claimsNeeded(h, limit), h.names, h.foreign, accepted)]

\* One pass of the loop of reconcile, up to the watch.
Reconcile ==
    /\ scaler.pc = "reconcile"
    /\ ~ctx
    /\ \E count \in Counts, listed \in BOOLEAN :
         LET s == Scaled(scaler, count, now)
             needed == claimsNeeded(hub, s.effectiveLimit)
         IN  \E accepted \in IF listed THEN 0..needed ELSE {0} :
                /\ scaler' = [s EXCEPT !.pc = "watch"]
                /\ hub' = createNeededClaims(hub, s.effectiveLimit, listed, accepted)
    /\ UNCHANGED <<claims, adminSecret, userSecret, configmap, htpasswd, req, pending, auth, now, ctx, admin, probe, calc, inject>>

\* The rest of the pass: the List and the watch of the ClusterDeployments
\* (or the sleep after an error of either), during which time passes.
ElapseStep == 5 * Minute

Watch ==
    /\ scaler.pc = "watch"
    /\ \E d \in IF ctx THEN {0} ELSE {0, ElapseStep} :
         /\ now + d <= MaxElapsed * ElapseStep
         /\ now' = now + d
    /\ scaler' = [scaler EXCEPT !.pc = "reconcile"]
    /\ UNCHANGED <<claims, adminSecret, userSecret, configmap, htpasswd, req, pending, auth, hub, ctx, admin, probe, calc, inject>>

\* The orchestrator reports one more ClusterDeployment of the pool as
\* provisioned.
Provision ==
    /\ hub.provisioned < MaxProvisioned
    /\ hub' = [hub EXCEPT !.provisioned = @ + 1]
    /\ UNCHANGED <<claims, adminSecret, userSecret, configmap, htpasswd, req, pending, auth,
                   scaler, now, ctx, admin, probe, calc, inject>>

(***************************************************************************)
(* The cluster-claimer alone from its start: main has parsed the flags,    *)
(* waitForProvisioned has seen one provisioned deployment and reconcile    *)
(* begins with no claim of the pool.                                       *)
(***************************************************************************)
BaseLimits == {1, 2}

MaxLimits == {1, 3}

Increments == {1, 2}

Thresholds == {0, 1}

InitScaler ==
    /\ claims = [c \in Claims |-> NewClaim]
    /\ adminSecret = [k \in Claims |-> "install"]
    /\ userSecret = [k \in Claims |-> "absent"]
    /\ configmap = [k \in Claims |-> FALSE]
    /\ htpasswd = [k \in Claims |-> NotFound]
    /\ req = [r \in Requests |-> IdleRequest]
    /\ pending = 0
    /\ auth = IdleAuthenticator
    /\ scaler \in {StartScaler(b, m, i, t) :
                      b \in BaseLimits, m \in MaxLimits, i \in Increments, t \in Thresholds}
    /\ hub = PoolOf({}, 1)
    /\ now = 0
    /\ ctx = FALSE
    /\ admin = StartAdmin(<<>>)
    /\ probe = NoProbe
    /\ calc = NoCalc
    /\ inject = NoInject

NextScaler ==
    \/ Reconcile
    \/ Watch
    \/ Provision

SpecScaler == InitScaler /\ [][NextScaler]_vars

(***************************************************************************)
(* The cluster-claimer started against a namespace that already holds      *)
(* claims: names are the numbers i of the claims prelude<i> of the pool,   *)
(* foreign those of claims prelude<i> that reference another pool.         *)
(***************************************************************************)
Hubs ==
    {[names |-> n, foreign |-> f, provisioned |-> p] :
        n \in SUBSET (1..MaxNames), f \in SUBSET (1..MaxNames), p \in 1..MaxProvisioned}

InitHub ==
    /\ claims = [c \in Claims |-> NewClaim]
    /\ adminSecret = [k \in Claims |-> "install"]
    /\ userSecret = [k \in Claims |-> "absent"]
    /\ configmap = [k \in Claims |-> FALSE]
    /\ htpasswd = [k \in Claims |-> NotFound]
    /\ req = [r \in Requests |-> IdleRequest]
    /\ pending = 0
    /\ auth = IdleAuthenticator
    /\ scaler \in {StartScaler(b, 3, 1, 1) : b \in BaseLimits}
    /\ hub \in {h \in Hubs : h.names \cap h.foreign = {}}
    /\ now = 0
    /\ ctx = FALSE
    /\ admin = StartAdmin(<<>>)
    /\ probe = NoProbe
    /\ calc = NoCalc
    /\ inject = NoInject

SpecHub == InitHub /\ [][NextScaler]_vars

(***************************************************************************)
(* The cluster-claimer with a store that serves every call: the count and  *)
(* the Lists succeed and a create fails only when the name is taken.  The  *)
(* loop of reconcile never ends by itself, so a pass and the watch that    *)
(* follows it are taken whenever they are due.                              *)
(***************************************************************************)
\* This step is a pass of reconcile whose count and Lists succeeded and in
\* which the store refused no create of a free name.
Served ==
    /\ scaler.pc = "reconcile" /\ scaler'.pc = "watch"
    /\ ~scaler'.err
    /\ LET count == [err |-> FALSE, available |-> scaler'.available,
                     ready |-> scaler'.ready]
           s == Scaled(scaler, count, now)
           k == claimsNeeded(hub, s.effectiveLimit)
       IN  /\ scaler' = [s EXCEPT !.pc = "watch"]
           /\ hub' = createNeededClaims(hub, s.effectiveLimit, TRUE, k)

ReconcileServed == Reconcile /\ Served

NextServed ==
    \/ ReconcileServed
    \/ Watch
    \/ Provision

FairServed == WF_vars(ReconcileServed) /\ WF_vars(Watch)

SpecServed == InitHub /\ [][NextServed]_vars /\ FairServed

(***************************************************************************)
(* Cancellation.                                                           *)
(*                                                                         *)
(* Each of the two background programs derives one context in main and     *)
(* cancels it on SIGINT or SIGTERM.  A store call made with a cancelled    *)
(* context fails at once, and sleepOrDone returns at once.                 *)
(***************************************************************************)
\* The signal handler: cancel().
Cancel ==
    /\ ~ctx
    /\ ctx' = TRUE
    /\ UNCHANGED <<claims, adminSecret, userSecret, configmap, htpasswd, req, pending, auth,
                   scaler, hub, now, admin, probe, calc, inject>>

\* reconcile of the cluster-claimer, the check at the top of its loop.
ReconcileReturn ==
    /\ scaler.pc = "reconcile"
    /\ ctx
    /\ scaler' = [scaler EXCEPT !.pc = "done"]
    /\ UNCHANGED <<claims, adminSecret, userSecret, configmap, htpasswd, req, pending, auth,
                   hub, now, ctx, admin, probe, calc, inject>>

\* reconcile of the cluster-authenticator, the check at the top of its
\* loop.
AuthDone ==
    /\ auth.pc = "list"
    /\ ctx
    /\ auth' = [auth EXCEPT !.pc = "done"]
    /\ UNCHANGED <<claims, adminSecret, userSecret, configmap, htpasswd, req, pending,
                   scaler, hub, now, ctx, admin, probe, calc, inject>>

\* waitForProvisioned, called at instant 0: one iteration of its loop.  The
\* loop ends with an error once the timeout has passed.  Otherwise it lists
\* the ClusterDeployments: an error of the List sleeps 10 s and iterates; a
\* provisioned deployment in the listing returns nil; with none the watch
\* runs for 30 s at most and the loop iterates (a deployment provisioned
\* during the watch is in the next listing).  The clock has the resolution
\* ElapseStep.
WaitTimeout == 100 * Minute

WaitForProvisioned ==
    /\ scaler.pc = "wait"
    /\ IF now >= WaitTimeout
       THEN /\ scaler' = [scaler EXCEPT !.pc = "fatal"]
            /\ now' = now
       ELSE \E listed \in IF ctx THEN {FALSE} ELSE BOOLEAN :
               IF listed /\ hub.provisioned > 0
               THEN /\ scaler' = [scaler EXCEPT !.pc = "reconcile"]
                    /\ now' = now
               ELSE /\ scaler' = scaler
                    /\ \E d \in {0, ElapseStep} : now' = now + d
    /\ UNCHANGED <<claims, adminSecret, userSecret, configmap, htpasswd, req, pending, auth,
                   hub, ctx, admin, probe, calc, inject>>

\* authenticateCluster up to the stability gate: the ClusterDeployment and
\* the admin kubeconfig from the hub, the clients of the spoke.  An error
\* skips to the next claim; otherwise waitForStableCluster starts with its
\* 30 minute budget and no hold.  The gate is entered only while its budget
\* ends within the MaxElapsed steps of the clock.
StableTimeout == 30 * Minute

\* A hold of 110 seconds.
StablePeriodShort == 110 * Second

StablePeriod == 120 * Second

AuthPrepare ==
    /\ auth.pc = "authenticate"
    /\ \/ auth' = AuthContinue(auth)
       \/ /\ now + StableTimeout <= MaxElapsed * ElapseStep
          /\ auth' = [auth EXCEPT !.pc = "gate", !.stableSince = ZeroTime,
                                  !.deadline = now + StableTimeout]
    /\ UNCHANGED <<claims, adminSecret, userSecret, configmap, htpasswd, req, pending, now,
                   scaler, hub, ctx, admin, probe, calc, inject>>

\* What areClusterOperatorsStable can return: an error of the List, true
\* (operators listed, all Available, none Progressing or Degraded) or false.
Readings == {"error", "stable", "unstable"}

GateSleep == 10 * Second

\* waitForStableCluster, one iteration of its loop: the cancellation check,
\* the deadline check, the reading (kept in auth.reading), the hold, and the
\* sleep of 10 s when the gate does not return.  An error of the gate is an error of
\* authenticateCluster, which skips to the next claim.
WaitForStableCluster ==
    /\ auth.pc = "gate"
    /\ IF ctx \/ now > auth.deadline
       THEN /\ auth' = AuthContinue(auth)
            /\ now' = now
       ELSE \E reading \in Readings :
               LET since == IF reading # "stable" THEN ZeroTime
                            ELSE IF auth.stableSince = ZeroTime THEN now
                            ELSE auth.stableSince
               IN  IF reading = "stable" /\ now - since >= StablePeriod
                   THEN /\ auth' = [auth EXCEPT !.pc = "seal", !.stableSince = since,
                                                !.reading = reading]
                        /\ now' = now
                   ELSE /\ auth' = [auth EXCEPT !.stableSince = since, !.reading = reading]
                        /\ now' = now + GateSleep
    /\ UNCHANGED <<claims, adminSecret, userSecret, configmap, htpasswd, req, pending,
                   scaler, hub, ctx, admin, probe, calc, inject>>

\* authenticateCluster after the stability gate, and the loop body of
\* processUnauthenticatedClaims up to the label write.
AuthSeal ==
    /\ auth.pc = "seal"
    /\ \E stop \in 1..(Len(AuthSteps) + 1) :
         /\ authenticateCluster(stop)
         /\ auth' = IF Authenticated(stop)
                    THEN [auth EXCEPT !.pc = "labelGet", !.sealed = StepsBefore(stop)]
                    ELSE AuthContinue(auth)
    /\ UNCHANGED <<claims, req, pending, now, scaler, hub, ctx, admin, probe, calc, inject>>

(***************************************************************************)
(* One of the two background programs from its start, with its signal      *)
(* handler: the cluster-claimer entering waitForProvisioned with no        *)
(* deployment provisioned yet, or the cluster-authenticator entering       *)
(* reconcile with the claims of the pool bound.  The program that is not   *)
(* running is "off".                                                       *)
(***************************************************************************)
InitCancel ==
    /\ adminSecret = [k \in Claims |-> "install"]
    /\ userSecret = [k \in Claims |-> "absent"]
    /\ configmap = [k \in Claims |-> FALSE]
    /\ htpasswd = [k \in Claims |-> NotFound]
    /\ req = [r \in Requests |-> IdleRequest]
    /\ pending = 0
    /\ \/ /\ scaler = [StartScaler(claimLimit, claimMax, claimIncrement, availableThreshold)
                           EXCEPT !.pc = "wait"]
          /\ hub = PoolOf({}, 0)
          /\ claims = [c \in Claims |-> NewClaim]
          /\ auth = [IdleAuthenticator EXCEPT !.pc = "off"]
       \/ /\ scaler = [StartScaler(claimLimit, claimMax, claimIncrement, availableThreshold)
                           EXCEPT !.pc = "off"]
          /\ hub = PoolOf(Claims, MaxClaims)
          /\ claims = [c \in Claims |-> [NewClaim EXCEPT !.ns = c]]
          /\ auth = IdleAuthenticator
    /\ now = 0
    /\ ctx = FALSE
    /\ admin = StartAdmin(<<>>)
    /\ probe = NoProbe
    /\ calc = NoCalc
    /\ inject = NoInject

NextCancel ==
    \/ Cancel
    \/ WaitForProvisioned
    \/ Reconcile
    \/ ReconcileReturn
    \/ Watch
    \/ scaler.pc # "off" /\ Provision
    \/ AuthList
    \/ AuthDone
    \/ AuthPrepare
    \/ WaitForStableCluster
    \/ AuthSeal
    \/ AuthLabelGet
    \/ AuthLabelUpdate
    \/ AuthWatch

SpecCancel == InitCancel /\ [][NextCancel]_vars

(***************************************************************************)
(* POST /api/admin/login and GET /api/admin.                               *)
(***************************************************************************)
BearerPrefix == <<"B", "e", "a", "r", "e", "r", " ">>

\* A check of the session set that does not require the Bearer prefix.
validateAdminTokenAnyScheme(a, authorization) ==
    IF a.adminPassword = <<>> THEN TRUE
    ELSE TrimPrefix(authorization, BearerPrefix) \in a.adminTokens

validateAdminToken(a, authorization) ==
    IF a.adminPassword = <<>> THEN TRUE
    ELSE IF ~HasPrefix(authorization, BearerPrefix) THEN FALSE
    ELSE TrimPrefix(authorization, BearerPrefix) \in a.adminTokens

\* The inputs of the two handlers: the request method, the password of the
\* login body, the Authorization header, the 32 bytes rand.Read delivers.
Methods == {"GET", "POST"}

AdminPasswords == {<<>>, <<"s">>}

LoginPasswords == {<<>>, <<"s">>, <<"x">>}

TokenBytes == 32

RandReads == {[i \in 1..TokenBytes |-> v] : v \in {10, 177, 255}}

Authorizations ==
    LET tokens == {generateToken(b) : b \in RandReads}
    IN  {<<>>, BearerPrefix}
            \cup {BearerPrefix \o t : t \in tokens}
            \cup tokens
            \cup {<<"b", "e", "a", "r", "e", "r", " ">> \o t : t \in tokens}

\* handleAdminLogin: decoded tells whether the body decoded, read whether
\* rand.Read succeeded.
handleAdminLogin ==
    /\ \E method \in Methods, password \in LoginPasswords, decoded \in BOOLEAN,
          b \in RandReads, read \in BOOLEAN :
         LET answer(status, token) ==
                 [handler |-> "login", method |-> method,
                  password |-> IF decoded THEN password ELSE <<>>,
                  authorization |-> <<>>, status |-> status, token |-> token]
         IN  IF method # "POST"
             THEN admin' = [admin EXCEPT !.call = answer(405, <<>>)]
             ELSE IF admin.adminPassword = <<>>
             THEN admin' = [admin EXCEPT !.call = answer(200, <<>>)]
             ELSE IF ~decoded
             THEN admin' = [admin EXCEPT !.call = answer(400, <<>>)]
             ELSE IF password # admin.adminPassword
             THEN admin' = [admin EXCEPT !.call = answer(401, <<>>)]
             ELSE IF ~read
             THEN admin' = [admin EXCEPT !.call = answer(500, <<>>)]
             ELSE admin' = [admin EXCEPT !.adminTokens = @ \cup {generateToken(b)},
                                         !.call = answer(200, generateToken(b))]
    /\ UNCHANGED <<claims, adminSecret, userSecret, configmap, htpasswd, req, pending, auth,
                   scaler, hub, now, ctx, probe, calc, inject>>

\* handleAdmin: listed tells whether both Lists succeeded.
handleAdmin ==
    /\ \E method \in Methods, authorization \in Authorizations, listed \in BOOLEAN :
         LET answer(status) ==
                 [handler |-> "admin", method |-> method, password |-> <<>>,
                  authorization |-> authorization, status |-> status, token |-> <<>>]
         IN  IF method # "GET"
             THEN admin' = [admin EXCEPT !.call = answer(405)]
             ELSE IF ~validateAdminToken(admin, authorization)
             THEN admin' = [admin EXCEPT !.call = answer(401)]
             ELSE IF ~listed
             THEN admin' = [admin EXCEPT !.call = answer(500)]
             ELSE admin' = [admin EXCEPT !.call = answer(200)]
    /\ UNCHANGED <<claims, adminSecret, userSecret, configmap, htpasswd, req, pending, auth,
                   scaler, hub, now, ctx, probe, calc, inject>>

InitAdmin ==
    /\ claims = [c \in Claims |-> NewClaim]
    /\ adminSecret = [k \in Claims |-> "install"]
    /\ userSecret = [k \in Claims |-> "absent"]
    /\ configmap = [k \in Claims |-> FALSE]
    /\ htpasswd = [k \in Claims |-> NotFound]
    /\ req = [r \in Requests |-> IdleRequest]
    /\ pending = 0
    /\ auth = IdleAuthenticator
    /\ scaler = StartScaler(claimLimit, claimMax, claimIncrement, availableThreshold)
    /\ hub = PoolOf(Claims, MaxClaims)
    /\ now = 0
    /\ ctx = FALSE
    /\ admin \in {StartAdmin(p) : p \in AdminPasswords}
    /\ probe = NoProbe
    /\ calc = NoCalc
    /\ inject = NoInject

NextAdmin ==
    \/ handleAdminLogin
    \/ handleAdmin

SpecAdmin == InitAdmin /\ [][NextAdmin]_vars

(***************************************************************************)
(* GET /api/cluster/ready.                                                 *)
(***************************************************************************)
\* The phone parameter of the query.
PhoneQueries == PhoneInputs \cup {<<>>, <<"1">>}

\* The lookups of the handler that can fail, in order: the List of the
\* claims, the Get of the ClusterDeployment, its adminKubeconfigSecretRef,
\* the Get of the secret, its kubeconfig and the clients built from it, the
\* Get of the authentication ClusterOperator.  "none" when all succeed.
ReadyLookups == {"list", "deployment", "reference", "secret", "kubeconfig", "operator", "none"}

\* spec.namespace of the first listed claim whose phone label is phone.
ClusterOfPhone(phone) ==
    LET hits == {c \in Claims : claims[c].phone = phone}
    IN  IF hits = {} THEN NoCluster
        ELSE claims[CHOOSE c \in hits : \A d \in hits : c <= d].ns

\* handleClusterReady: failed is the lookup that fails, progressing whether
\* the authentication operator lacks the condition Progressing=False.
handleClusterReady ==
    /\ \E method \in Methods, query \in PhoneQueries, failed \in ReadyLookups,
          progressing \in BOOLEAN :
         LET phone == sanitizePhone(query)
             error(status) ==
                 [method |-> method, phone |-> phone, status |-> status,
                  json |-> FALSE, ready |-> FALSE]
             answer(ready) ==
                 [method |-> method, phone |-> phone, status |-> 200,
                  json |-> TRUE, ready |-> ready]
         IN  probe' =
                 IF method # "GET" THEN error(405)
                 ELSE IF phone = <<>> THEN error(400)
                 ELSE IF failed = "list" THEN answer(FALSE)
                 ELSE IF ClusterOfPhone(phone) = NoCluster THEN answer(FALSE)
                 ELSE IF failed # "none" THEN answer(FALSE)
                 ELSE answer(~progressing)
    /\ UNCHANGED <<claims, adminSecret, userSecret, configmap, htpasswd, req, pending, auth,
                   scaler, hub, now, ctx, admin, calc, inject>>

\* The states of a claim of the pool: unbound, bound, bound with auth=done,
\* and assigned to a phone.
ClaimStates(c) ==
    {NewClaim, [NewClaim EXCEPT !.ns = c], [NewClaim EXCEPT !.ns = c, !.auth = TRUE]}
        \cup {[NewClaim EXCEPT !.ns = c, !.auth = TRUE, !.phone = sanitizePhone(p)] :
                 p \in {q \in PhoneQueries : sanitizePhone(q) # <<>>}}

InitReady ==
    /\ claims \in {f \in [Claims -> UNION {ClaimStates(c) : c \in Claims}] :
                      \A c \in Claims : f[c] \in ClaimStates(c)}
    /\ adminSecret = [k \in Claims |-> "sealed"]
    /\ userSecret = [k \in Claims |-> "sealed"]
    /\ configmap = [k \in Claims |-> TRUE]
    /\ htpasswd = [k \in Claims |-> <<>>]
    /\ req = [r \in Requests |-> IdleRequest]
    /\ pending = 0
    /\ auth = IdleAuthenticator
    /\ scaler = StartScaler(claimLimit, claimMax, claimIncrement, availableThreshold)
    /\ hub = PoolOf(Claims, MaxClaims)
    /\ now = 0
    /\ ctx = FALSE
    /\ admin = StartAdmin(<<>>)
    /\ probe = NoProbe
    /\ calc = NoCalc
    /\ inject = NoInject

NextReady == handleClusterReady

SpecReady == InitReady /\ [][NextReady]_vars

(***************************************************************************)
(* The string and duration functions of the assignment service, each       *)
(* called once on an argument drawn from the sets below.                   *)
(***************************************************************************)
\* A digit, a lower-case and an upper-case hex letter, a letter that is no
\* hex digit, characters that are kept, mapped to - and dropped.
TextChars == {"1", "a", "F", "z", "-", ".", " ", "#"}

\* The strings of up to MaxText of these characters, and runs of 17, 63 and
\* 64 equal characters.
Texts ==
    UNION {[1..n -> TextChars] : n \in 0..MaxText}
        \cup {[i \in 1..n |-> ch] : n \in {17, 63, 64}, ch \in {"1", "F", "-"}}

CallSanitizePhone ==
    /\ calc.f = "none"
    /\ calc.arg \in Texts
    /\ calc' = [calc EXCEPT !.f = "sanitizePhone", !.out = sanitizePhone(calc.arg)]
    /\ UNCHANGED <<claims, adminSecret, userSecret, configmap, htpasswd, req, pending, auth,
                   scaler, hub, now, ctx, admin, probe, inject>>

CallSanitizeFingerprint ==
    /\ calc.f = "none"
    /\ calc.arg \in Texts
    /\ calc' = [calc EXCEPT !.f = "sanitizeFingerprint", !.out = sanitizeFingerprint(calc.arg)]
    /\ UNCHANGED <<claims, adminSecret, userSecret, configmap, htpasswd, req, pending, auth,
                   scaler, hub, now, ctx, admin, probe, inject>>

\* The duration strings made of up to MaxTerms whole terms <n>d, <n>h, <n>m,
\* and one term whose number has 20 digits.
Terms ==
    {Itoa(n) \o <<"d">> : n \in {0, 1, 7}}
        \cup {Itoa(n) \o <<"h">> : n \in {0, 1, 25}}
        \cup {Itoa(n) \o <<"m">> : n \in {0, 1, 59, 60, 90}}
        \cup {<<"0", "0", "7", "m">>}

RECURSIVE DurationsOf(_)
DurationsOf(n) ==
    IF n = 0 THEN {<<>>}
    ELSE LET shorter == DurationsOf(n - 1)
         IN  shorter \cup {s \o t : s \in shorter, t \in Terms}

Durations == DurationsOf(MaxTerms) \cup {[i \in 1..20 |-> "9"] \o <<"m">>}

\* parseDuration, and formatDuration of the duration it returned.
CallParseDuration ==
    /\ calc.f = "none"
    /\ calc.arg \in Durations
    /\ LET p == parseDuration(calc.arg)
       IN  calc' = [calc EXCEPT !.f = "parseDuration", !.parsed = p,
                                !.out = IF p.ok THEN formatDuration(p.d) ELSE <<>>]
    /\ UNCHANGED <<claims, adminSecret, userSecret, configmap, htpasswd, req, pending, auth,
                   scaler, hub, now, ctx, admin, probe, inject>>

InitText ==
    /\ claims = [c \in Claims |-> NewClaim]
    /\ adminSecret = [k \in Claims |-> "install"]
    /\ userSecret = [k \in Claims |-> "absent"]
    /\ configmap = [k \in Claims |-> FALSE]
    /\ htpasswd = [k \in Claims |-> NotFound]
    /\ req = [r \in Requests |-> IdleRequest]
    /\ pending = 0
    /\ auth = IdleAuthenticator
    /\ scaler = StartScaler(claimLimit, claimMax, claimIncrement, availableThreshold)
    /\ hub = PoolOf(Claims, MaxClaims)
    /\ now = 0
    /\ ctx = FALSE
    /\ admin = StartAdmin(<<>>)
    /\ probe = NoProbe
    /\ calc \in {[NoCalc EXCEPT !.arg = s] : s \in Texts \cup Durations}
    /\ inject = NoInject

NextText ==
    \/ CallSanitizePhone
    \/ CallSanitizeFingerprint
    \/ CallParseDuration

SpecText == InitText /\ [][NextText]_vars

(***************************************************************************)
(* The assignment service and the authenticator over a clock that moves in *)
(* steps longer than a minute, so that the age of a claim at a later       *)
(* selection shows in the lifetime that is written.                        *)
(***************************************************************************)
AgeSteps == {90 * Second}

Elapse ==
    /\ \E d \in AgeSteps :
         /\ now + d <= MaxAged * d
         /\ now' = now + d
    /\ UNCHANGED <<claims, adminSecret, userSecret, configmap, htpasswd, req, pending, auth,
                   scaler, hub, ctx, admin, probe, calc, inject>>

NextAged ==
    \/ \E c \in Claims : Bind(c)
    \/ \E r \in Requests : handleClaim(r)
    \/ Authenticator
    \/ Elapse

SpecAged == Init /\ [][NextAged]_vars

(***************************************************************************)
(* updateHtpasswd called again and again on the spokes, whatever happens   *)
(* to hold their htpass-secret at the start: no secret, the empty entry    *)
(* the authenticator seeds, or the entry of an earlier password.           *)
(***************************************************************************)
HtpasswdPasswords == PasswordInputs \cup {<<"q">>}

\* An implementation that writes without comparing the stored hash.
HtpasswdWriteUncompared(existing, password) ==
    IF existing = NotFound THEN "create" ELSE "update"

\* What updateHtpasswd does downstream for the content it found.
HtpasswdWrite(existing, password) ==
    IF existing = NotFound THEN "create"
    ELSE IF existing = password THEN "skip"
    ELSE "update"

\* One call.  It fails before any write when the hash cannot be generated,
\* the spoke client cannot be built or the Get fails otherwise than with
\* not-found; the Create or the Update can fail as well.
updateHtpasswd ==
    /\ \E k \in Claims, password \in HtpasswdPasswords, reached \in BOOLEAN, written \in BOOLEAN :
         LET existing == htpasswd[k]
             op == IF reached THEN HtpasswdWrite(existing, password) ELSE "none"
             failed == ~reached \/ (op # "skip" /\ ~written)
             prior == IF inject.cluster = k /\ inject.password = password /\ ~inject.err
                      THEN inject.op ELSE "none"
         IN  /\ htpasswd' = IF failed THEN htpasswd
                            ELSE [htpasswd EXCEPT ![k] = HtpasswdAfter(existing, password)]
             /\ inject' = [cluster |-> k, password |-> password, before |-> existing,
                           op |-> op, err |-> failed, prior |-> prior]
    /\ UNCHANGED <<claims, adminSecret, userSecret, configmap, req, pending, auth, scaler,
                   hub, now, ctx, admin, probe, calc>>

InitHtpasswd ==
    /\ claims = [c \in Claims |-> NewClaim]
    /\ adminSecret = [k \in Claims |-> "install"]
    /\ userSecret = [k \in Claims |-> "absent"]
    /\ configmap = [k \in Claims |-> FALSE]
    /\ htpasswd \in [Claims -> {NotFound, <<>>} \cup HtpasswdPasswords]
    /\ req = [r \in Requests |-> IdleRequest]
    /\ pending = 0
    /\ auth = IdleAuthenticator
    /\ scaler = StartScaler(claimLimit, claimMax, claimIncrement, availableThreshold)
    /\ hub = PoolOf(Claims, MaxClaims)
    /\ now = 0
    /\ ctx = FALSE
    /\ admin = StartAdmin(<<>>)
    /\ probe = NoProbe
    /\ calc = NoCalc
    /\ inject = NoInject

NextHtpasswd == updateHtpasswd

SpecHtpasswd == InitHtpasswd /\ [][NextHtpasswd]_vars

(***************************************************************************)
(* The lifetime computation of fresh selection over the whole range of     *)
(* time.Duration, an int64 count of nanoseconds.  A duration is carried    *)
(* here as [m, ms]: its whole minutes and the milliseconds beyond them.    *)
(* The largest duration, 9223372036854775807 ns, is 153722867 minutes and  *)
(* 16854 ms (and a fraction of a millisecond).                             *)
(***************************************************************************)
MaxDuration == [m |-> 153722867, ms |-> 16854]

\* Whether the sum t of two durations is beyond the largest one, in which
\* case the int64 addition wraps to a negative number.
Wraps(t) == t.m > MaxDuration.m \/ (t.m = MaxDuration.m /\ t.ms > MaxDuration.ms)

\* parseDuration with the result in whole minutes, for strings whose terms
\* and sum fit a time.Duration.
RECURSIVE parseMinutesFrom(_, _, _)
parseMinutesFrom(s, total, current) ==
    IF s = <<>>
    THEN IF current # <<>> THEN [ok |-> FALSE, m |-> 0] ELSE [ok |-> TRUE, m |-> total]
    ELSE LET c == Head(s)
         IN  IF c \in DigitChars
             THEN parseMinutesFrom(Tail(s), total, Append(current, c))
             ELSE IF current = <<>> THEN [ok |-> FALSE, m |-> 0]
             ELSE IF AtoiRangeError(current) THEN [ok |-> FALSE, m |-> 0]
             ELSE IF c = "d" THEN parseMinutesFrom(Tail(s), total + Atoi(current) * 24 * 60, <<>>)
             ELSE IF c = "h" THEN parseMinutesFrom(Tail(s), total + Atoi(current) * 60, <<>>)
             ELSE IF c = "m" THEN parseMinutesFrom(Tail(s), total + Atoi(current), <<>>)
             ELSE [ok |-> FALSE, m |-> 0]

parseMinutes(s) == parseMinutesFrom(s, 0, <<>>)

\* formatDuration of a duration [m, ms] that is not negative.
formatMinutes(t) ==
    IF t.m = 0 /\ t.ms = 0 THEN <<"0", "m">>
    ELSE LET hours == t.m \div 60
             minutes == t.m % 60
             hpart == IF hours > 0 THEN Itoa(hours) \o <<"h">> ELSE <<>>
             mpart == IF minutes > 0 THEN Itoa(minutes) \o <<"m">> ELSE <<>>
         IN  IF hpart \o mpart = <<>> THEN <<"1", "m">> ELSE hpart \o mpart

\* age + configuredDuration before any wrap, for an age in milliseconds.
TotalLifetime(age, configured) ==
    [m |-> configured.m + age \div Minute, ms |-> age % Minute]

\* The values of the -cluster-lifetime flag and the ages of the picked
\* claim, to the millisecond.
LifetimeFlags ==
    {<<"1", "m">>, <<"5", "9", "m">>, <<"9", "0", "m">>, <<"2", "h">>,
     <<"1", "d", "1", "2", "h">>, <<"3", "0", "d">>,
     <<"1", "0", "6", "7", "5", "1", "d">>,
     <<"1", "5", "3", "7", "2", "2", "8", "6", "7", "m">>}

Ages ==
    {k * Minute + e : k \in {0, 1, 45, 60} \cup {d * 24 * 60 : d \in 1..MaxAgeDays},
                      e \in {0, 1, 16854, 16855, 59999}}

\* Fresh selection, from parseDuration(clusterLifetime) to the value of
\* spec.lifetime, for a claim created at instant 0 and picked now.  A
\* wrapped sum is negative, and formatDuration writes "0m" for it.
FreshLifetime ==
    /\ calc.f = "none"
    /\ calc.arg \in LifetimeFlags
    /\ LET configured == parseMinutes(calc.arg)
           age == now - 0
           totalLifetime == TotalLifetime(age, configured)
       IN  calc' = [calc EXCEPT !.f = "lifetime",
                                !.parsed = [ok |-> configured.ok, d |-> 0],
                                !.out = IF ~configured.ok THEN <<>>
                                        ELSE IF Wraps(totalLifetime) THEN <<"0", "m">>
                                        ELSE formatMinutes(totalLifetime)]
    /\ UNCHANGED <<claims, adminSecret, userSecret, configmap, htpasswd, req, pending, auth,
                   scaler, hub, now, ctx, admin, probe, inject>>

InitLifetime ==
    /\ claims = [c \in Claims |-> NewClaim]
    /\ adminSecret = [k \in Claims |-> "install"]
    /\ userSecret = [k \in Claims |-> "absent"]
    /\ configmap = [k \in Claims |-> FALSE]
    /\ htpasswd = [k \in Claims |-> NotFound]
    /\ req = [r \in Requests |-> IdleRequest]
    /\ pending = 0
    /\ auth = IdleAuthenticator
    /\ scaler = StartScaler(claimLimit, claimMax, claimIncrement, availableThreshold)
    /\ hub = PoolOf(Claims, MaxClaims)
    /\ now \in Ages
    /\ ctx = FALSE
    /\ admin = StartAdmin(<<>>)
    /\ probe = NoProbe
    /\ calc \in {[NoCalc EXCEPT !.arg = s] : s \in LifetimeFlags}
    /\ inject = NoInject

NextLifetime == FreshLifetime

SpecLifetime == InitLifetime /\ [][NextLifetime]_vars

(***************************************************************************)
(* The assignment service and the cluster-authenticator together on a      *)
(* ready pool: requests assign and recover claims while the authenticator  *)
(* labels the recovered ones again.                                        *)
(***************************************************************************)
NextRecovery ==
    \/ \E r \in Requests : handleClaim(r)
    \/ Authenticator

SpecRecovery == InitPool /\ [][NextRecovery]_vars

(***************************************************************************)
(* Properties.                                                             *)
(***************************************************************************)
Assigned(c) == claims[c].phone # <<>>

Available == {c \in Claims : claims[c].auth /\ claims[c].phone = <<>>}

\* Request r sends its response in this step, with status code.
Answers(r, code) == req[r].pc # "done" /\ req'[r].pc = "done" /\ req'[r].status = code

\* C1: in every reachable state no two claims of the pool carry the same
\* non-empty phone label.
C1_NoSharedPhone ==
    \A c1, c2 \in Claims :
        c1 # c2 /\ Assigned(c1) => claims[c1].phone # claims[c2].phone

\* C2: a claim whose phone label is non-empty is never overwritten with a
\* different phone: of two requests with distinct phones that picked the same
\* available claim, at most one update is accepted.
C2_PhoneNeverOverwritten ==
    [][\A c \in Claims :
          Assigned(c) => claims'[c].phone \in {claims[c].phone, <<>>}]_vars

\* C2 witness: a request picked a claim by fresh selection, its update was
\* rejected, and the claim carries the phone of another request.
C2_LostRace ==
    \E r \in Requests :
        /\ req[r].pc = "done" /\ req[r].status = 500
        /\ req[r].found = "no" /\ req[r].claimName # NoClaim
        /\ Assigned(req[r].claimName)
        /\ claims[req[r].claimName].phone # req[r].phone

\* C3: in every reachable state no two claims of the pool carry the same
\* non-empty fp label together with two distinct non-empty phone labels.
C3_OneClusterPerDevice ==
    \A c1, c2 \in Claims :
        (/\ c1 # c2
         /\ claims[c1].fp # <<>> /\ claims[c1].fp = claims[c2].fp
         /\ Assigned(c1) /\ Assigned(c2))
        => claims[c1].phone = claims[c2].phone

\* C4: in every reachable state every claim that carries a phone label also
\* carries auth=done.
C4_PhoneImpliesAuth == \A c \in Claims : Assigned(c) => claims[c].auth

\* C4 witness: one claim is assigned while the recovery of a request has
\* unlabelled another.
C4_AssignedAfterRecovery ==
    \E c \in Claims, r \in Requests :
        /\ Assigned(c) /\ claims[c].auth
        /\ req[r].pc = "done" /\ req[r].status = 503
        /\ req[r].claimName # c
        /\ ~claims[req[r].claimName].auth /\ claims[req[r].claimName].lifetime # <<>>

\* C5: whenever POST /api/claim answers 200 for a claim, that claim is
\* labelled auth=done at the moment the response is sent.
C5_SealedWhenReturned ==
    [][\A r \in Requests :
          Answers(r, 200) => claims'[req'[r].claimName].auth]_vars

\* C6: the authenticator adds auth=done to a claim only by the label write
\* that ends its processing of that claim, after the admin kubeconfig secret,
\* the user kubeconfig secret, the configmap and the htpasswd secret were all
\* written in that same processing; no other step adds the label.
C6_LabelAfterSealing ==
    [][\A c \in Claims :
          (~claims[c].auth /\ claims'[c].auth) =>
              /\ auth.pc = "labelUpdate" /\ auth.cur = c
              /\ {"admin", "user", "configmap", "htpasswd"} \subseteq auth.sealed
              /\ adminSecret[auth.clusterName] = "sealed"
              /\ userSecret[auth.clusterName] = "sealed"
              /\ configmap[auth.clusterName]
              /\ htpasswd[auth.clusterName] # NotFound]_vars

\* C6 witness: the authenticator has labelled a claim whose cluster carries
\* the sealed secrets and both bootstrap objects, after an earlier pass had
\* failed on another claim midway.
C6_LabelledOneFailedOther ==
    \E c, d \in Claims :
        /\ claims[c].auth
        /\ adminSecret[claims[c].ns] = "sealed" /\ userSecret[claims[c].ns] = "sealed"
        /\ configmap[claims[c].ns] /\ htpasswd[claims[c].ns] # NotFound
        /\ claims[d].ns # NoCluster /\ ~claims[d].auth
        /\ userSecret[claims[d].ns] = "sealed" /\ ~configmap[claims[d].ns]

\* C7: whenever POST /api/claim answers 503, the claim it had selected has
\* the phone, auth and fp labels all absent at the moment the response is
\* sent.
C7_UnlabelledWhen503 ==
    [][\A r \in Requests :
          Answers(r, 503) =>
              LET claim == claims'[req'[r].claimName]
              IN  claim.phone = <<>> /\ ~claim.auth /\ claim.fp = <<>>]_vars

\* C8: a request whose listing shows a claim with auth=done and its phone
\* selects that claim (and so returns its bound cluster id) and labels none.
C8_AffinityReturnsCarrier ==
    [][\A r \in Requests, c \in Claims :
          (/\ req[r].pc = "list" /\ req'[r].pc # "list"
           /\ ~Answers(r, 500)
           /\ claims[c].auth /\ claims[c].phone = req[r].phone)
          => /\ req'[r].found = "affinity"
             /\ req'[r].claimName = c
             /\ req'[r].clusterName = claims[c].ns]_vars

\* C9: the expiresAt returned by the request that freshly selects a claim
\* equals, at the one-second resolution of the response, creation + the
\* lifetime stored on that claim, which is what a later affinity re-bind
\* returns.
C9_FreshExpiryIsStoredExpiry ==
    [][\A r \in Requests :
          (req[r].pc = "label" /\ req'[r].found = "fresh") =>
              FormatRFC3339(req'[r].expiresAt)
                  = FormatRFC3339(ExpiryOf(claims'[req'[r].claimName]))]_vars

\* The requests whose fresh-selection update was accepted by the store.
LabelledBy(r) == req[r].found = "fresh"

AllAnswered == pending = 0 /\ \A r \in Requests : req[r].pc = "done"

\* C10: for calls with pairwise distinct phones, no two calls bind the same
\* claim, and the number of available claims equals N minus the number of
\* calls whose labelling update was accepted: every call that answered 200 or
\* 503 is one of them, and so is a call that answered 500 after labelling.
C10_AvailableDropsByLabellings ==
    /\ \A r1, r2 \in Requests :
          (r1 # r2 /\ LabelledBy(r1) /\ LabelledBy(r2))
          => req[r1].claimName # req[r2].claimName
    /\ \A r \in Requests :
          (req[r].pc = "done" /\ req[r].status \in {200, 503}) => LabelledBy(r)
    /\ AllAnswered =>
          Cardinality(Available)
              = MaxClaims - Cardinality({r \in Requests : LabelledBy(r)})

\* C10 witness: all calls have answered, one with 200 and one with 503, each
\* after labelling a claim of its own.
C10_OneServedOneRecovered ==
    /\ AllAnswered
    /\ \E r1, r2 \in Requests :
          /\ req[r1].status = 200 /\ req[r2].status = 503
          /\ LabelledBy(r1) /\ LabelledBy(r2)
          /\ req[r1].claimName # req[r2].claimName

\* C10 as stated: once all calls have answered, the number of available
\* claims equals N minus the number of calls that answered 200.
C10_AvailableDropsBySuccesses ==
    AllAnswered =>
        Cardinality(Available)
            = MaxClaims - Cardinality({r \in Requests : req[r].status = 200})

\* Request r leaves its listing step with a listing it obtained.
Listed(r) == req[r].pc = "list" /\ req'[r].pc # "list" /\ ~Answers(r, 500)

\* Some auth=done claim carries the phone of request r.
CarriesPhoneOf(r) == \E c \in Claims : claims[c].auth /\ claims[c].phone = req[r].phone

\* Some auth=done claim carries the fingerprint of request r with another,
\* non-empty phone.
CarriesDeviceOf(r) ==
    \E c \in Claims :
        /\ claims[c].auth /\ claims[c].fp = req[r].fingerprint
        /\ Assigned(c) /\ claims[c].phone # req[r].phone

\* C11: a request with a non-empty fingerprint whose listing shows no
\* auth=done claim with its phone and some auth=done claim with its
\* fingerprint and another non-empty phone answers 409 and changes no claim.
C11_DeviceConflictRejected ==
    [][\A r \in Requests :
          (/\ Listed(r)
           /\ req[r].fingerprint # <<>>
           /\ ~CarriesPhoneOf(r)
           /\ CarriesDeviceOf(r))
          => Answers(r, 409) /\ claims' = claims]_vars

\* C11 witness: a request was answered 409 while a claim carries a
\* fingerprint with another phone and an available claim is left untouched.
C11_RejectedWithClusterFree ==
    \E r \in Requests, c \in Claims :
        /\ req[r].pc = "done" /\ req[r].status = 409
        /\ claims[c].auth /\ claims[c].fp # <<>>
        /\ Assigned(c) /\ claims[c].phone # req[r].phone
        /\ Available # {}

\* C12: a request whose listing shows no auth=done claim with its phone, no
\* device conflict and no available claim answers 404 and changes no claim.
C12_ExhaustedPoolRejected ==
    [][\A r \in Requests :
          (/\ Listed(r)
           /\ ~CarriesPhoneOf(r)
           /\ ~(req[r].fingerprint # <<>> /\ CarriesDeviceOf(r))
           /\ Available = {})
          => Answers(r, 404) /\ claims' = claims]_vars

\* C12 witness: a request was answered 404 while every auth=done claim is
\* assigned to another phone.
C12_RejectedAllInUse ==
    \E r \in Requests :
        /\ req[r].pc = "done" /\ req[r].status = 404
        /\ Available = {}
        /\ \E c \in Claims : claims[c].auth
        /\ \A c \in Claims : claims[c].auth => Assigned(c) /\ claims[c].phone # req[r].phone

\* C12 as stated: a request whose listing shows no auth=done claim with its
\* phone and no available claim answers 404 and changes no claim.
C12_NoAvailableRejected ==
    [][\A r \in Requests :
          (Listed(r) /\ ~CarriesPhoneOf(r) /\ Available = {})
          => Answers(r, 404) /\ claims' = claims]_vars

\* C13: in every reachable state the coordination labels of each claim are
\* one of {none}, {auth=done}, {auth=done, phone, fp}.
C13_LegalLabelCombinations ==
    \A c \in Claims :
        \/ ~claims[c].auth /\ claims[c].phone = <<>> /\ claims[c].fp = <<>>
        \/ claims[c].auth /\ claims[c].phone = <<>> /\ claims[c].fp = <<>>
        \/ claims[c].auth /\ claims[c].phone # <<>> /\ claims[c].fp # <<>>

\* authenticateCluster returns nil for claim c in this step.
Mints(c) == auth.pc = "authenticate" /\ auth.cur = c /\ auth'.pc = "labelGet"

\* authenticateCluster has returned nil for cluster k before: htpass-secret
\* exists on a cluster only once the last step of a flow has created it.
Minted(k) == htpasswd[k] # NotFound

\* C14: for each claim authenticateCluster returns success at most once: it
\* never succeeds for a claim whose cluster it has succeeded on before.
C14_MintedAtMostOnce ==
    [][\A c \in Claims : Mints(c) => ~Minted(auth.clusterName)]_vars

\* The authenticator gives up on the claim at hand in this step.
Skips(c) ==
    /\ auth.cur = c /\ auth' # auth
    /\ \/ auth.pc = "authenticate" /\ auth'.pc # "labelGet"
       \/ auth.pc = "labelGet" /\ auth'.pc # "labelUpdate"

\* C15: a failing claim only makes the pass go on to the next listed claim,
\* and every bound claim whose steps succeed when attempted is eventually
\* labelled auth=done, whatever happens to the claim listed before it.
C15_NoPoisonPill ==
    /\ [][\A c \in Claims :
            (Skips(c) /\ auth.todo # <<>>)
            => /\ auth'.pc = "authenticate"
               /\ auth'.cur = Head(auth.todo).claimName
               /\ auth'.todo = Tail(auth.todo)]_vars
    /\ \A c \in Steady : (claims[c].ns # NoCluster) ~> claims[c].auth

\* C15 witness: a claim of Steady is labelled while the claim listed before
\* it is bound and was given up midway, its user kubeconfig secret written
\* and htpass-secret not yet created.
C15_LabelledPastFailed ==
    \E c \in Steady, d \in Claims \ Steady :
        /\ d < c
        /\ claims[c].auth
        /\ claims[d].ns # NoCluster /\ ~claims[d].auth
        /\ userSecret[claims[d].ns] = "sealed" /\ ~Minted(claims[d].ns)
        /\ auth.pc = "watch"

\* The cluster-claimer makes a pass in this step; the count it obtained is
\* in the locals of the next state.
Pass == scaler.pc = "reconcile" /\ scaler'.pc = "watch"

\* C16: at every pass of the cluster-claimer the effective limit lies
\* between the base limit and the maximum.
C16_LimitWithinBounds ==
    /\ scaler.baseLimit <= scaler.effectiveLimit
    /\ scaler.effectiveLimit <= scaler.maxLimit

\* C16 witness: the limit has reached a maximum that was raised to the base
\* limit at the start, after a pass that counted no available claim.
C16_ClampedMaximumHeld ==
    /\ scaler.pc = "watch"
    /\ scaler.baseLimit = 2 /\ scaler.maxLimit = 2 /\ scaler.effectiveLimit = 2
    /\ ~scaler.err /\ scaler.available = 0 /\ scaler.ready > 0

\* C17: the limit increases only when it never increased before or at
\* least 25 minutes after its last increase, lastScaleUp being the instant
\* of the last increase.
C17_ScaleUpsApart ==
    [][/\ scaler'.effectiveLimit > scaler.effectiveLimit
          => /\ \/ scaler.lastScaleUp = ZeroTime
                \/ now - scaler.lastScaleUp >= 25 * Minute
             /\ scaler'.lastScaleUp = now
       /\ scaler'.lastScaleUp # scaler.lastScaleUp
          => scaler'.effectiveLimit > scaler.effectiveLimit]_vars

\* C17 witness: the limit went from 1 to 3 by increments of 1, the second
\* increase 25 minutes or more after the start.
C17_SecondScaleUp ==
    /\ scaler.baseLimit = 1 /\ scaler.increment = 1 /\ scaler.effectiveLimit = 3
    /\ scaler.lastScaleUp >= 25 * Minute

\* The count of this pass succeeded, found the available claims at or below
\* the threshold and some claim ready, the limit is below the maximum and
\* the limit never increased or last did 25 minutes ago or more.
ScaleUpDue ==
    /\ ~scaler'.err
    /\ scaler'.available <= scaler.availableThreshold
    /\ scaler'.ready > 0
    /\ scaler.effectiveLimit < scaler.maxLimit
    /\ scaler.lastScaleUp = ZeroTime \/ now - scaler.lastScaleUp >= 25 * Minute

\* C18: a pass on which a scale-up is due sets the limit to
\* min(limit + increment, maximum), stamps lastScaleUp with the instant of
\* the pass and clears availableSince; any other pass does not increase the
\* limit.
C18_ScaleUpWhenDue ==
    [][Pass =>
          IF ScaleUpDue
          THEN /\ scaler'.effectiveLimit =
                      IF scaler.effectiveLimit + scaler.increment > scaler.maxLimit
                      THEN scaler.maxLimit
                      ELSE scaler.effectiveLimit + scaler.increment
               /\ scaler'.lastScaleUp = now
               /\ scaler'.availableSince = ZeroTime
          ELSE scaler'.effectiveLimit <= scaler.effectiveLimit]_vars

\* C18 witness: a pass 25 minutes or more after the start has just raised
\* the limit from 2 by an increment of 2 to the maximum 3.
C18_RaisedToMaximum ==
    /\ scaler.pc = "watch"
    /\ scaler.lastScaleUp = now /\ now >= 25 * Minute
    /\ scaler.baseLimit = 2 /\ scaler.increment = 2
    /\ scaler.effectiveLimit = 3 /\ scaler.maxLimit = 3
    /\ scaler.availableSince = ZeroTime

\* C19: the limit decreases only on a pass whose count succeeded with the
\* available claims above the threshold; a pass that counted them at or
\* below the threshold neither decreases the limit nor starts the timer
\* availableSince.
C19_ScaleDownOnlyWhenAvailable ==
    [][/\ scaler'.effectiveLimit < scaler.effectiveLimit
          => Pass /\ ~scaler'.err /\ scaler'.available > scaler.availableThreshold
       /\ (Pass /\ ~scaler'.err /\ scaler'.available <= scaler.availableThreshold)
          => /\ scaler'.effectiveLimit >= scaler.effectiveLimit
             /\ scaler.availableSince = ZeroTime
                => scaler'.availableSince = ZeroTime]_vars

\* C20: the limit is reset to the base limit only on a pass 10 minutes or
\* more after availableSince was set, and every pass that counted the
\* available claims at or below the threshold leaves availableSince
\* cleared, so that the period starts anew.
C20_NoFlapping ==
    [][/\ scaler'.effectiveLimit < scaler.effectiveLimit
          => /\ scaler'.effectiveLimit = scaler.baseLimit
             /\ scaler.availableSince # ZeroTime
             /\ now - scaler.availableSince >= 10 * Minute
       /\ (Pass /\ ~scaler'.err /\ scaler'.available <= scaler.availableThreshold)
          => scaler'.availableSince = ZeroTime]_vars

\* The names of the claims prelude<i> held in the claim namespace.
Present == hub.names \cup hub.foreign

\* The limit of the pass capped by the provisioned deployments.
Target == IF hub.provisioned > scaler'.effectiveLimit
          THEN scaler'.effectiveLimit
          ELSE hub.provisioned

\* This step is a pass of reconcile in which every store operation
\* succeeded: the count, the Lists of createNeededClaims and each create it
\* issued.
Succeeded ==
    /\ scaler.pc = "reconcile" /\ scaler'.pc = "watch"
    /\ ~scaler'.err
    /\ LET count == [err |-> FALSE, available |-> scaler'.available,
                     ready |-> scaler'.ready]
           s == Scaled(scaler, count, now)
           k == claimsNeeded(hub, s.effectiveLimit)
       IN  /\ scaler' = [s EXCEPT !.pc = "watch"]
           /\ hub' = createNeededClaims(hub, s.effectiveLimit, TRUE, k)
           /\ issuedFrom(1, k, hub.names, hub.foreign, k) \cap hub.foreign = {}

SmallestFree(k) ==
    {i \in 1..(k + Cardinality(Present)) :
        i \notin Present /\ Cardinality({j \in 1..i : j \notin Present}) <= k}

\* C22: a pass of reconcile that needs k > 0 claims and lists the claims
\* issues no create for a name already held in the claim namespace, by a
\* claim of the pool or of another pool, and when the store accepts every
\* create it creates exactly the claims prelude<i> for the k smallest i
\* not already present.
C22_CreatesSmallestFreeNames ==
    [][(scaler.pc = "reconcile" /\ scaler'.pc = "watch") =>
          LET k == claimsNeeded(hub, scaler'.effectiveLimit)
          IN  \A a \in 0..k :
                 (k > 0 /\ hub' = createNeededClaims(hub, scaler'.effectiveLimit, TRUE, a))
                 => /\ issuedFrom(1, k, hub.names, hub.foreign, a) \cap Present = {}
                    /\ a = k => hub'.names \ hub.names = SmallestFree(k)]_vars

\* C23: once the context is cancelled, each background loop returns at its
\* next step and lets no time pass: waitForProvisioned and reconcile of the
\* cluster-claimer, reconcile of the cluster-authenticator and
\* waitForStableCluster.
C23_LoopsReturnOnCancel ==
    [][ctx =>
          /\ now' = now
          /\ (scaler.pc = "wait" /\ scaler' # scaler) => scaler'.pc = "done"
          /\ (scaler.pc = "reconcile" /\ scaler' # scaler) => scaler'.pc = "done"
          /\ (auth.pc = "list" /\ auth' # auth) => auth'.pc = "done"
          /\ (auth.pc = "gate" /\ auth' # auth) => auth'.pc = "watch"]_vars

\* Request q has been answered 503 for claim c, and request r carries the
\* same phone and is about to list the claims.
ListsAfter503(q, r, c) ==
    /\ q # r
    /\ req[q].pc = "done" /\ req[q].status = 503 /\ req[q].claimName = c
    /\ req[r].pc = "list" /\ req[r].phone = req[q].phone

\* C24: a request that lists the claims after a request with the same
\* phone was answered 503 for claim c is not matched to a claim by its
\* phone, and neither matches nor selects c.
C24_NextRequestPicksAnother ==
    [][\A q \in Requests, r \in Requests, c \in Claims :
          (ListsAfter503(q, r, c) /\ req'[r].pc # "list")
          => /\ req'[r].found # "affinity"
             /\ req'[r].claimName # c]_vars

\* C25: a GET /api/admin is authorized (not answered 401) exactly when no
\* admin password is configured or its Authorization header is "Bearer "
\* followed by a token of the session set; the session set grows only by
\* the token that a POST /api/admin/login with the configured password
\* returns, and no token ever leaves it.
C25_AdminAuthorization ==
    [][/\ (admin'.call.handler = "admin" /\ admin'.call.method = "GET")
          => (admin'.call.status # 401
                 <=> \/ admin'.adminPassword = <<>>
                     \/ \E t \in admin'.adminTokens :
                           admin'.call.authorization = BearerPrefix \o t)
       /\ admin.adminTokens \subseteq admin'.adminTokens
       /\ admin'.adminTokens # admin.adminTokens
          => /\ admin'.call.handler = "login" /\ admin'.call.method = "POST"
             /\ admin'.call.status = 200
             /\ admin'.call.password = admin.adminPassword
             /\ admin'.adminTokens = admin.adminTokens \cup {admin'.call.token}
       /\ admin'.adminPassword = admin.adminPassword]_vars

\* C25 witness: with a password configured and two tokens issued, a GET
\* /api/admin with one of them as Bearer token was answered 200.
C25_AuthorizedByToken ==
    /\ admin.adminPassword # <<>>
    /\ Cardinality(admin.adminTokens) = 2
    /\ admin.call.handler = "admin" /\ admin.call.status = 200
    /\ \E t \in admin.adminTokens : admin.call.authorization = BearerPrefix \o t

\* C26: every GET /api/cluster/ready is answered with status 200 and the
\* JSON body {ready: ...}, whatever the phone parameter and whichever
\* lookup fails.
C26_ReadyNeverFails ==
    probe.method = "GET" => probe.status = 200 /\ probe.json

Alphanumerics == LowerChars \cup UpperChars \cup DigitChars

CharsOf(s) == {s[i] : i \in 1..Len(s)}

\* C27: what sanitizePhone returns is a valid label value: only characters
\* of [A-Za-z0-9._-], empty or with an alphanumeric at both ends, and of 63
\* characters at most.
C27_PhoneIsLabelValue ==
    calc.f = "sanitizePhone" =>
        /\ CharsOf(calc.out) \subseteq Alphanumerics \cup {".", "_", "-"}
        /\ calc.out # <<>> => /\ Head(calc.out) \in Alphanumerics
                              /\ calc.out[Len(calc.out)] \in Alphanumerics
        /\ Len(calc.out) <= 63

\* C28: sanitizePhone applied to what sanitizePhone returned returns the
\* same string.
C28_SanitizePhoneIdempotent ==
    calc.f = "sanitizePhone" => sanitizePhone(calc.out) = calc.out

\* C28 witness: sanitizePhone was called on "- 1" and returned "1": the
\* space was written as -, and both leading - were trimmed.
C28_StrippedAndMapped ==
    /\ calc.f = "sanitizePhone"
    /\ calc.arg = <<"-", " ", "1">>
    /\ calc.out = <<"1">>

\* C29: what sanitizeFingerprint returns has 16 characters at most, all of
\* [0-9a-f], and is empty when the argument holds no hex character.
C29_FingerprintLowerHex ==
    calc.f = "sanitizeFingerprint" =>
        /\ Len(calc.out) <= 16
        /\ CharsOf(calc.out) \subseteq DigitChars \cup {"a", "b", "c", "d", "e", "f"}
        /\ CharsOf(calc.arg) \cap HexChars = {} => calc.out = <<>>

\* C30: parseDuration succeeds on every string of whole d, h and m terms,
\* and parsing the formatted result gives the same duration again.
C30_DurationRoundTrip ==
    calc.f = "parseDuration" =>
        /\ calc.parsed.ok
        /\ parseDuration(formatDuration(calc.parsed.d)) = calc.parsed

\* spec.lifetime of a claim as a duration; below every duration when the
\* claim has none.
StoredLifetime(claim) ==
    IF claim.lifetime = <<>> THEN 0 - 1 ELSE parseDuration(claim.lifetime).d

\* C31: no step of the assignment service or of the authenticator lowers
\* the lifetime stored on a claim, or removes it.
C31_LifetimeNeverDecreases ==
    [][\A c \in Claims : StoredLifetime(claims'[c]) >= StoredLifetime(claims[c])]_vars

\* C31 witness: a claim was assigned, unlabelled by the recovery of that
\* request, stamped again and assigned to a later request, which wrote a
\* longer lifetime.
C31_ReassignedWithLongerLifetime ==
    \E r, q \in Requests :
        /\ req[r].pc = "done" /\ req[r].status = 503
        /\ req[q].pc = "done" /\ req[q].status = 200 /\ req[q].found = "fresh"
        /\ req[q].claimName = req[r].claimName
        /\ req[q].expiresAt >= req[r].expiresAt + Minute
        /\ StoredLifetime(claims[req[q].claimName]) > parseDuration(clusterLifetime).d

\* C32: a request whose Update of the claim it picked is rejected by the
\* store is answered 404 all_clusters_in_use.
C32_LostRaceAnswers404 ==
    [][\A r \in Requests :
          (req[r].pc = "label" /\ ~UpdateAccepted(req[r]) /\ req'[r].pc = "done")
              => req'[r].status = 404]_vars

C34_StabilityGate ==
    [][(auth.pc = "gate" /\ auth' # auth) =>
          /\ auth'.pc = "seal" =>
                /\ auth'.reading = "stable"
                /\ now <= auth.deadline
                /\ auth'.stableSince # ZeroTime
                /\ now' - auth'.stableSince >= 120 * Second
                /\ auth.stableSince # ZeroTime => auth'.stableSince = auth.stableSince
          /\ (auth'.pc = "gate" /\ auth'.reading # "stable") => auth'.stableSince = ZeroTime
          /\ (auth'.pc = "gate" /\ auth'.reading = "stable") =>
                auth'.stableSince = IF auth.stableSince = ZeroTime THEN now ELSE auth.stableSince
          /\ now > auth.deadline =>
                /\ auth.deadline = 30 * Minute
                /\ auth'.pc \in {"authenticate", "watch"}
                /\ auth'.cur # auth.cur
                /\ \A i \in DOMAIN auth'.todo : auth'.todo[i].claimName # auth.cur
                /\ claims' = claims]_vars

\* C34 witness: the gate has returned nil on a hold that began after an
\* earlier hold was cleared, later than the first reading of the gate.
C34_PassedOnSecondHold ==
    /\ auth.pc = "seal"
    /\ auth.reading = "stable"
    /\ auth.stableSince >= 3 * GateSleep
    /\ now = auth.stableSince + StablePeriod

\* C35: the lifetime written by fresh selection, as a duration, is at most
\* age + configured lifetime and less than a minute below it (so creation +
\* lifetime is in (now + configured - 1 min, now + configured]), for every
\* age and every configured lifetime of a minute or more.  The lifetime is a
\* whole number of minutes, so that is: it has the whole minutes of the sum.
C35_LifetimeWithinMinute ==
    (calc.f = "lifetime" /\ parseMinutes(calc.arg).m >= 1) =>
        /\ calc.parsed.ok
        /\ parseMinutes(calc.out).ok
        /\ parseMinutes(calc.out).m = TotalLifetime(now, parseMinutes(calc.arg)).m

\* C36: the only write of the authenticator to a claim is the label write
\* of labelClaimAuthenticated; it changes a claim that is bound and lacks
\* auth=done, and only by adding auth=done: phone, fp and everything else
\* stay as stored.  No step of the authenticator clears auth=done.
C36_AuthenticatorFrame ==
    [][/\ (auth.pc = "labelUpdate" /\ auth'.pc # "labelUpdate") =>
             \A c \in Claims :
                 claims'[c] # claims[c] =>
                     /\ c = auth.cur
                     /\ ~claims[c].auth
                     /\ claims[c].ns # NoCluster
                     /\ claims'[c] = [claims[c] EXCEPT !.auth = TRUE]
       /\ (auth.pc # "labelUpdate" /\ auth' # auth) => claims' = claims]_vars

\* C36 witness: the authenticator has stamped a claim that carries a
\* lifetime from an earlier assignment, and the lifetime is still there.
C36_StampedAgainKeepsLifetime ==
    \E c \in Claims :
        /\ claims[c].auth
        /\ claims[c].phone = <<>>
        /\ claims[c].lifetime # <<>>
        /\ \E r \in Requests : req[r].status = 503 /\ req[r].claimName = c

\* C37: a step of the cluster-claimer leaves every claim as it is and
\* removes none; a pass issues a create only when it counted fewer claims of
\* the pool than min(T, provisioned), and the claims it adds do not take
\* the count above that.
C37_AutoscalerOnlyCreates ==
    [][scaler' # scaler =>
          /\ claims' = claims
          /\ hub.names \subseteq hub'.names
          /\ hub'.foreign = hub.foreign /\ hub'.provisioned = hub.provisioned
          /\ scaler.pc # "reconcile" => hub'.names = hub.names
          /\ scaler.pc = "reconcile" =>
                LET k == claimsNeeded(hub, scaler'.effectiveLimit)
                IN  /\ \A a \in 0..k :
                          (/\ hub' = createNeededClaims(hub, scaler'.effectiveLimit, TRUE, a)
                           /\ issuedFrom(1, k, hub.names, hub.foreign, a) # {})
                          => Cardinality(hub.names) < Target
                    /\ hub'.names # hub.names =>
                          /\ Cardinality(hub.names) < Target
                          /\ Cardinality(hub'.names) <= Target]_vars

\* C37 witness: the cluster-claimer, started with no claim of the pool, has
\* created claims in the course of its passes up to min(T, provisioned).
C37_CreatedUpToCap ==
    /\ scaler.pc = "watch"
    /\ Cardinality(hub.names) >= 2
    /\ Cardinality(hub.names) =
          IF hub.provisioned > scaler.effectiveLimit THEN scaler.effectiveLimit
          ELSE hub.provisioned

\* C38: whenever the Update of unlabelClaim, called by the recovery of a
\* request for phone p, is accepted, the claim it clears carries at that
\* moment the phone label p or none.
C38_RecoveryClearsOwnPhone ==
    [][\A r \in Requests :
          (req[r].pc = "unlabelUpdate" /\ UpdateAccepted(req[r]) /\ req'[r].pc = "done")
              => claims[req[r].claimName].phone \in {req[r].phone, <<>>}]_vars

\* C39: every claim labelled auth=done is bound, and a fresh selection
\* that has written its phone label goes on to the lookups with a cluster
\* id: it never answers 404 all_clusters_in_use.
C39_AuthDoneIsBound ==
    /\ [](\A c \in Claims : claims[c].auth => claims[c].ns # NoCluster)
    /\ [][\A r \in Requests :
             (/\ req[r].pc = "label" /\ req'[r].pc # "label"
              /\ claims'[req[r].claimName].phone # claims[req[r].claimName].phone)
             => /\ req'[r].pc = "lookup"
                /\ req'[r].clusterName # NoCluster
                /\ req'[r].status # 404]_vars

\* C39 witness: a request was given a claim by fresh selection and answered
\* 200 for its cluster while another claim of the pool is still unbound.
C39_FreshServedBesideUnbound ==
    \E r \in Requests, c \in Claims :
        /\ req[r].pc = "done" /\ req[r].status = 200 /\ req[r].found = "fresh"
        /\ req[r].claimName = c /\ req[r].clusterName = claims[c].ns
        /\ claims[c].phone = req[r].phone /\ claims[c].auth
        /\ \E u \in Claims : claims[u].ns = NoCluster /\ ~claims[u].auth

\* The pool holds fewer claims than min(T, provisioned).
Missing ==
    Cardinality(hub.names) <
        IF hub.provisioned > scaler.effectiveLimit THEN scaler.effectiveLimit
        ELSE hub.provisioned

\* C40: with the loop of reconcile running and the store serving every
\* call, a pool that holds fewer claims than min(T, provisioned) eventually
\* holds that many.
C40_MissingClaimsCreated == Missing ~> ~Missing

====
